---- MODULE Spec2Model ----
(***************************************************************************)
(* Model of the resume analyzer of project_roar                            *)
(* (src/resume_analyzer/core.py, src/resume_analyzer/views.py), of its     *)
(* report, detail and management views (src/reports/views.py,              *)
(* src/students/views.py, src/teachers/views.py, src/courses/views.py) and *)
(* of the fee step of its seeding commands (src/dummy_data.py,             *)
(* src/dashboard/management/commands/dummy_data.py).                       *)
(*                                                                         *)
(* Python str values are TLA+ strings; the str methods the code uses       *)
(* (lower, title, strip, join, substring test, comparison) and the         *)
(* regular expression \b<kw>\b are computed character by character.        *)
(* Floats are modelled as exact rationals [num, den] in lowest terms;      *)
(* den = 0 stands for ZeroDivisionError.                                   *)
(***************************************************************************)
EXTENDS Integers, Sequences, FiniteSets, TLC

VARIABLES _nlp, pc, op, arg, ret, db, matplotlib, served, django

vars == <<_nlp, pc, op, arg, ret, db, matplotlib, served, django>>

----------------------------------------------------------------------------
(* Bounds of the explored inputs. *)

MaxPieces == 3

MaxSkills == 2

MaxPages == 2

MaxEnrollments == 2

MaxAttendance == 2

MaxInvoices == 2

MaxPayments == 2

MaxTeachers == 2

MaxRequests == 2

MaxSeedStudents == 4

----------------------------------------------------------------------------
(* Python str primitives (ASCII). *)

None == "<None>"

UpperLetters == "ABCDEFGHIJKLMNOPQRSTUVWXYZ"

LowerLetters == "abcdefghijklmnopqrstuvwxyz"

Digits == "0123456789"

Ascii32to95 == " !\"#$%&'()*+,-./0123456789:;<=>?@ABCDEFGHIJKLMNOPQRSTUVWXYZ[\\]^_"

Ascii97to126 == "abcdefghijklmnopqrstuvwxyz{|}~"

Char(s, i) == SubSeq(s, i, i)

InStr(c, s) == \E i \in 1..Len(s) : Char(s, i) = c

IndexOf(c, s) == CHOOSE i \in 1..Len(s) : Char(s, i) = c

Ord(c) ==
    IF c = "\t" THEN 9
    ELSE IF c = "\n" THEN 10
    ELSE IF c = "\r" THEN 13
    ELSE IF InStr(c, Ascii32to95) THEN 31 + IndexOf(c, Ascii32to95)
    ELSE 96 + IndexOf(c, Ascii97to126)

IsUpper(c) == InStr(c, UpperLetters)

IsLower(c) == InStr(c, LowerLetters)

IsCased(c) == IsUpper(c) \/ IsLower(c)

IsSpace(c) == c \in {" ", "\t", "\n", "\r"}

IsWordChar(c) == IsCased(c) \/ InStr(c, Digits) \/ c = "_"

LowerChar(c) == IF IsUpper(c) THEN Char(LowerLetters, IndexOf(c, UpperLetters)) ELSE c

UpperChar(c) == IF IsLower(c) THEN Char(UpperLetters, IndexOf(c, LowerLetters)) ELSE c

RECURSIVE lower(_)
lower(s) == IF s = "" THEN "" ELSE LowerChar(Head(s)) \o lower(Tail(s))

RECURSIVE TitleFrom(_, _)
TitleFrom(s, prevCased) ==
    IF s = "" THEN ""
    ELSE LET c == Head(s)
         IN  (IF prevCased THEN LowerChar(c) ELSE UpperChar(c))
                 \o TitleFrom(Tail(s), IsCased(c))

title(s) == TitleFrom(s, FALSE)

RECURSIVE lstrip(_)
lstrip(s) == IF s # "" /\ IsSpace(Head(s)) THEN lstrip(Tail(s)) ELSE s

RECURSIVE rstrip(_)
rstrip(s) ==
    IF s # "" /\ IsSpace(Char(s, Len(s))) THEN rstrip(SubSeq(s, 1, Len(s) - 1)) ELSE s

strip(s) == rstrip(lstrip(s))

Contains(sub, s) ==
    \E i \in 1..(Len(s) - Len(sub) + 1) : SubSeq(s, i, i + Len(sub) - 1) = sub

RECURSIVE join(_, _)
join(sep, seq) ==
    IF seq = <<>> THEN ""
    ELSE IF Len(seq) = 1 THEN seq[1]
    ELSE seq[1] \o sep \o join(sep, Tail(seq))

RECURSIVE StrLess(_, _)
StrLess(a, b) ==
    IF b = "" THEN FALSE
    ELSE IF a = "" THEN TRUE
    ELSE IF Head(a) = Head(b) THEN StrLess(Tail(a), Tail(b))
    ELSE Ord(Head(a)) < Ord(Head(b))

RECURSIVE sorted(_)
sorted(S) ==
    IF S = {} THEN <<>>
    ELSE LET m == CHOOSE x \in S : \A y \in S \ {x} : StrLess(x, y)
         IN  <<m>> \o sorted(S \ {m})

Range(seq) == {seq[i] : i \in DOMAIN seq}

----------------------------------------------------------------------------
(* re.search(r"\b" + re.escape(kw) + r"\b", text) *)

WordAt(s, i) == i >= 1 /\ i <= Len(s) /\ IsWordChar(Char(s, i))

Boundary(s, i) == WordAt(s, i) # WordAt(s, i + 1)

re_search_word(kw, s) ==
    \E i \in 1..(Len(s) - Len(kw) + 1) :
        /\ SubSeq(s, i, i + Len(kw) - 1) = kw
        /\ Boundary(s, i - 1)
        /\ Boundary(s, i + Len(kw) - 1)

----------------------------------------------------------------------------
(* The skill vocabulary. *)

_SKILL_KEYWORDS_LITERAL ==
    << "python", "java", "c++", "c#", "javascript", "typescript", "sql", "nosql", "html", "css",
       "react", "angular", "vue", "node.js", "node", "django", "flask", "spring", "hibernate",
       "rest", "api", "graphql", "jpa", "oop", "agile", "scrum", "kanban",
       "oracle", "postgresql", "mysql", "mongodb", "redis", "docker", "kubernetes", "aws", "azure",
       "google cloud", "gcp", "ci/cd", "jenkins", "git", "github", "gitlab", "bitbucket",
       "unit testing", "integration testing", "selenium", "appium", "jira", "trello", "slack",
       "machine learning", "deep learning", "data analysis", "data science", "artificial intelligence",
       "nlp", "computer vision", "tensorflow", "pytorch", "keras", "scikit-learn", "pandas", "numpy",
       "matplotlib", "seaborn", "tableau", "power bi",
       "design patterns", "mvc", "microservices", "soap", "json", "xml", "web development",
       "backend development", "frontend development", "full stack development",
       "software architecture", "software design", "problem-solving", "team collaboration",
       "communication", "data structures and algorithm", "object oriented programming" >>

RECURSIVE fromkeys(_, _)
fromkeys(seq, acc) ==
    IF seq = <<>> THEN acc
    ELSE IF Head(seq) \in Range(acc) THEN fromkeys(Tail(seq), acc)
    ELSE fromkeys(Tail(seq), Append(acc, Head(seq)))

_SKILL_KEYWORDS ==
    fromkeys([i \in DOMAIN _SKILL_KEYWORDS_LITERAL |-> lower(_SKILL_KEYWORDS_LITERAL[i])], <<>>)

----------------------------------------------------------------------------
(* The optional spaCy model.  _nlp is None when loading failed at import.  *)
(* A loaded model is described by what calling it does: it raises, or it   *)
(* returns the tokens of the text, split at whitespace only ("ws") or at   *)
(* whitespace and around every punctuation character ("punct").            *)

NlpLoaded == {"ws", "punct", "raises"}

NlpStates == {None} \cup NlpLoaded

Flush(cur) == IF cur = "" THEN {} ELSE {cur}

RECURSIVE TokScan(_, _, _, _)
TokScan(s, cur, acc, mode) ==
    IF s = "" THEN acc \cup Flush(cur)
    ELSE LET c == Head(s)
         IN  IF IsSpace(c) THEN TokScan(Tail(s), "", acc \cup Flush(cur), mode)
             ELSE IF mode = "punct" /\ ~IsWordChar(c)
                  THEN TokScan(Tail(s), "", acc \cup Flush(cur) \cup {c}, mode)
             ELSE TokScan(Tail(s), cur \o c, acc, mode)

nlp_tokens(nlp, text) == TokScan(text, "", {}, nlp)

----------------------------------------------------------------------------
(* extract_skills *)

keyword_match(kw, text_lower) ==
    IF InStr(" ", kw) THEN Contains(kw, text_lower)
    ELSE re_search_word(kw, text_lower)

keyword_scan(text_lower) ==
    {kw \in Range(_SKILL_KEYWORDS) : keyword_match(kw, text_lower)}

(* nlp_scan keeping only the tokens' matches instead of adding them. *)
nlp_scan_replacing(nlp, text, found) ==
    IF nlp = None THEN found
    ELSE IF nlp = "raises" THEN found
    ELSE {t \in {lower(tok) : tok \in nlp_tokens(nlp, text)} : t \in Range(_SKILL_KEYWORDS)}

(* nlp_scan whose exception handler drops what keyword matching found. *)
nlp_scan_dropping(nlp, text, found) ==
    IF nlp = None THEN found
    ELSE IF nlp = "raises" THEN {}
    ELSE found \cup {t \in {lower(tok) : tok \in nlp_tokens(nlp, text)} :
                        t \in Range(_SKILL_KEYWORDS)}

nlp_scan(nlp, text, found) ==
    IF nlp = None THEN found
    ELSE IF nlp = "raises" THEN found
    ELSE found \cup {t \in {lower(tok) : tok \in nlp_tokens(nlp, text)} :
                        t \in Range(_SKILL_KEYWORDS)}

(* display returning the skills in vocabulary order, without sorting. *)
display_unsorted(found) ==
    LET hits == SelectSeq(_SKILL_KEYWORDS, LAMBDA kw : kw \in found)
    IN  [i \in DOMAIN hits |-> title(hits[i])]

display(found) == sorted({title(s) : s \in found})

extract_skills_with(nlp, text) ==
    IF text = None \/ text = "" THEN <<>>
    ELSE display(nlp_scan(nlp, text, keyword_scan(lower(text))))

extract_skills(text) == extract_skills_with(_nlp, text)

----------------------------------------------------------------------------
(* Python float results as exact rationals. *)

RECURSIVE Gcd(_, _)
Gcd(a, b) == IF b = 0 THEN a ELSE Gcd(b, a % b)

Ratio(n, d) ==
    IF d = 0 THEN [num |-> 0, den |-> 0]
    ELSE [num |-> n \div Gcd(n, d), den |-> d \div Gcd(n, d)]

Times(r, k) == IF r.den = 0 THEN r ELSE Ratio(r.num * k, r.den)

----------------------------------------------------------------------------
(* compare_skills, calculate_ats_percentage *)

LowerSet(skills) == {lower(skills[i]) : i \in DOMAIN skills}

(* compare_skills comparing without lower-casing. *)
compare_skills_case_sensitive(resume_skills, job_skills) ==
    SelectSeq(job_skills, LAMBDA s : s \notin Range(resume_skills))

compare_skills(resume_skills, job_skills) ==
    LET resume_set == LowerSet(resume_skills)
    IN  SelectSeq(job_skills, LAMBDA s : lower(s) \notin resume_set)

(* calculate_ats_percentage without the empty-job-list guard. *)
calculate_ats_percentage_unguarded(resume_skills, job_skills) ==
    LET matched == LowerSet(resume_skills) \cap LowerSet(job_skills)
    IN  Times(Ratio(Cardinality(matched), Len(job_skills)), 100)

(* calculate_ats_percentage dividing by the number of resume skills. *)
calculate_ats_percentage_by_resume(resume_skills, job_skills) ==
    IF job_skills = <<>> THEN Ratio(0, 1)
    ELSE LET matched == LowerSet(resume_skills) \cap LowerSet(job_skills)
         IN  Times(Ratio(Cardinality(matched), Len(resume_skills)), 100)

calculate_ats_percentage(resume_skills, job_skills) ==
    IF job_skills = <<>> THEN Ratio(0, 1)
    ELSE LET matched == LowerSet(resume_skills) \cap LowerSet(job_skills)
         IN  Times(Ratio(Cardinality(matched), Len(job_skills)), 100)

----------------------------------------------------------------------------
(* Exceptions: a call returns Ok(v) or Raise(type, msg). *)

Ok(v) == [raised |-> FALSE, value |-> v]

Raise(type, msg) == [raised |-> TRUE, type |-> type, msg |-> msg]

_ensure_nlp_available(nlp) ==
    IF nlp = None
    THEN Raise("RuntimeError", "spaCy model not loaded. Install spaCy and the English model")
    ELSE Ok(None)

(* extract_text_from_pdf returning empty text when reading fails. *)
extract_text_from_pdf_swallowing(file_obj) ==
    IF ~file_obj.readable THEN Ok("")
    ELSE Ok(join("\n", SelectSeq(file_obj.pages, LAMBDA text : text # None /\ text # "")))

(* An uploaded file: readable or not (PdfReader or a page raises with      *)
(* message error), and the text of each page.                              *)
extract_text_from_pdf(file_obj) ==
    IF ~file_obj.readable
    THEN Raise("RuntimeError", "Failed to read PDF file: " \o file_obj.error)
    ELSE Ok(join("\n", SelectSeq(file_obj.pages, LAMBDA text : text # None /\ text # "")))

analyze_resume_file_and_job(pdf_file_obj, job_description) ==
    LET resume_text == extract_text_from_pdf(pdf_file_obj)
    IN  IF resume_text.raised THEN resume_text
        ELSE LET resume_skills == extract_skills(resume_text.value)
                 job_skills == extract_skills(job_description)
             IN  Ok([resumeSkills |-> resume_skills,
                     jobSkills |-> job_skills,
                     missingSkills |-> compare_skills(resume_skills, job_skills),
                     atsPercentage |-> calculate_ats_percentage(resume_skills, job_skills)])

----------------------------------------------------------------------------
(* Views (src/resume_analyzer/views.py). *)

JsonResponse(data, status) == [status |-> status, json |-> data]

login_required(request, view_result) ==
    IF request.authenticated THEN view_result
    ELSE [status |-> 302, json |-> [redirect |-> "login"]]

require_http_methods(methods, request, view_result) ==
    IF request.method \in methods THEN view_result
    ELSE [status |-> 405, json |-> [allow |-> methods]]

analyze_view(request) ==
    LET job_description == strip(IF request.job = None THEN "" ELSE request.job)
        resume_file == request.resume
        result == analyze_resume_file_and_job(resume_file, job_description)
        body ==
            IF job_description = "" \/ ~resume_file.present
            THEN JsonResponse(
                     [error |-> "Please provide both the job description and resume file."], 400)
            ELSE IF result.raised THEN JsonResponse([error |-> result.msg], 500)
            ELSE JsonResponse(result.value, 200)
    IN  login_required(request, require_http_methods({"POST"}, request, body))

index_view(request) ==
    login_required(request,
        require_http_methods({"GET"}, request,
            [status |-> 200, json |-> [template |-> "resume_analyzer.html"]]))

----------------------------------------------------------------------------
(* Stored data.  A table is a function from primary keys to rows; the      *)
(* fields are those the views read.  db holds the tables.                  *)

EmptyDb ==
    [students |-> <<>>, teachers |-> <<>>, courses |-> <<>>, enrollments |-> <<>>,
     attendance_records |-> <<>>, student_attendance |-> <<>>,
     invoices |-> <<>>, payments |-> <<>>, reviews |-> <<>>, publications |-> <<>>,
     users |-> <<>>, invoice_items |-> <<>>]

(* QuerySet.filter with keyword arguments: the primary keys of the rows    *)
(* whose fields equal them.                                                *)
filter(table, kwargs) ==
    {pk \in DOMAIN table : \A k \in DOMAIN kwargs : table[pk][k] = kwargs[k]}

(* QuerySet.count *)
count(table, kwargs) == Cardinality(filter(table, kwargs))

(* Model.objects.all(): no keyword argument. *)
all_rows == <<>>

RECURSIVE SumOver(_, _, _)
SumOver(table, pks, field) ==
    IF pks = {} THEN 0
    ELSE LET pk == CHOOSE x \in pks : TRUE
         IN  table[pk][field] + SumOver(table, pks \ {pk}, field)

(* SQL aggregates return NULL (Python None) over no rows. *)
Null == [null |-> TRUE]

Value(v) == [null |-> FALSE, value |-> v]

Sum(table, pks, field) ==
    IF pks = {} THEN Null ELSE Value(SumOver(table, pks, field))


(* Mutant: divides by the number of rows even when there is none. *)
Avg_unguarded(table, pks, field) ==
    Value(Ratio(SumOver(table, pks, field), Cardinality(pks)))

Avg(table, pks, field) ==
    IF pks = {} THEN Null
    ELSE Value(Ratio(SumOver(table, pks, field), Cardinality(pks)))

(* Python "x or zero" for an aggregate result. *)
or_0(x, zero) == IF x.null THEN zero ELSE x.value

(* values(field).annotate(count=Count("id")): one count per value present. *)
values_count(table, field) ==
    [v \in {table[pk][field] : pk \in DOMAIN table} |->
        Cardinality({pk \in DOMAIN table : table[pk][field] = v})]

(* values(field).annotate(count=Count("id"), total=Sum(amount)) *)
values_count_total(table, field, amount) ==
    [v \in {table[pk][field] : pk \in DOMAIN table} |->
        LET pks == {pk \in DOMAIN table : table[pk][field] = v}
        IN  [count |-> Cardinality(pks), total |-> SumOver(table, pks, amount)]]

render(template, context) == [status |-> 200, template |-> template, context |-> context]

NoContext == <<>>

(* HttpResponse(content, status), also the response to a raised exception. *)
HttpResponse(status, content) == [status |-> status, template |-> content, context |-> NoContext]

----------------------------------------------------------------------------
(* HTML report views (src/reports/views.py). *)

student_report(request, d) ==
    login_required(request,
        IF ~request.user.is_admin THEN render("reports/access_denied.html", NoContext)
        ELSE render("reports/student_report.html",
                 [total_students |-> count(d.students, all_rows),
                  students_by_gender |-> values_count(d.students, "gender"),
                  total_enrollments |-> count(d.enrollments, all_rows),
                  active_enrollments |->
                      count(d.enrollments, [status |-> "active"]),
                  completed_enrollments |->
                      count(d.enrollments, [status |-> "completed"]),
                  dropped_enrollments |->
                      count(d.enrollments, [status |-> "dropped"])]))

(* teacher.courses: the courses whose teachers include the teacher. *)
teacher_courses(d, teacher) == {c \in DOMAIN d.courses : teacher \in d.courses[c].teachers}

teacher_report(request, d) ==
    login_required(request,
        IF ~request.user.is_admin THEN render("reports/access_denied.html", NoContext)
        ELSE render("reports/teacher_report.html",
                 [total_teachers |-> count(d.teachers, all_rows),
                  teachers_by_gender |-> values_count(d.teachers, "gender"),
                  avg_experience |->
                      or_0(Avg(d.teachers, DOMAIN d.teachers, "experience"), Ratio(0, 1)),
                  teachers_with_courses |->
                      [t \in DOMAIN d.teachers |->
                          Cardinality(teacher_courses(d, t))]]))

(* Mutant: counts the distinct students of a course instead of its rows. *)
student_count_distinct(d) ==
    [c \in DOMAIN d.courses |->
        Cardinality({d.enrollments[pk].student :
                        pk \in filter(d.enrollments, [course |-> c])})]

(* Course.objects.annotate(student_count=Count("enrollments")) *)
student_count(d) ==
    [c \in DOMAIN d.courses |-> count(d.enrollments, [course |-> c])]

status_count(d, course, status) ==
    count(d.enrollments, [course |-> course, status |-> status])

course_report(request, d) ==
    login_required(request,
        IF ~request.user.is_admin THEN render("reports/access_denied.html", NoContext)
        ELSE render("reports/course_report.html",
                 [total_courses |-> count(d.courses, all_rows),
                  courses_with_students |-> student_count(d),
                  course_enrollments |->
                      [course \in DOMAIN d.courses |->
                          LET active == status_count(d, course, "active")
                              completed == status_count(d, course, "completed")
                              dropped == status_count(d, course, "dropped")
                          IN  [active |-> active, completed |-> completed,
                               dropped |-> dropped,
                               total |-> active + completed + dropped]]]))


(* Mutant: every attendance row counts for every course. *)
course_records_any_course(d, course) == DOMAIN d.student_attendance

(* The StudentAttendance rows of a course (attendance_record__course). *)
course_records(d, course) ==
    {pk \in DOMAIN d.student_attendance :
        d.attendance_records[d.student_attendance[pk].attendance_record].course = course}


(* Mutant: forgets the status filter. *)
records_count_any_status(d, pks, status) == Cardinality(pks)

records_count(d, pks, status) ==
    Cardinality({pk \in pks : d.student_attendance[pk].status = status})

attendance_report(request, d) ==
    login_required(request,
        IF ~request.user.is_admin THEN render("reports/access_denied.html", NoContext)
        ELSE render("reports/attendance_report.html",
                 [total_records |-> count(d.attendance_records, all_rows),
                  attendance_by_status |-> values_count(d.student_attendance, "status"),
                  course_attendance |->
                      [course \in {c \in DOMAIN d.courses : course_records(d, c) # {}} |->
                          LET records == course_records(d, course)
                              pres == records_count(d, records, "present")
                              absn == records_count(d, records, "absent")
                              late == records_count(d, records, "late")
                              exc == records_count(d, records, "excused")
                              tot == pres + absn + late + exc
                          IN  [present |-> pres, absent |-> absn, late |-> late,
                               excused |-> exc, total |-> tot,
                               present_percentage |->
                                   IF tot # 0 THEN Ratio(pres * 100, tot)
                                   ELSE Ratio(0, 1)]]]))

fee_report(request, d) ==
    login_required(request,
        IF ~request.user.is_admin THEN render("reports/access_denied.html", NoContext)
        ELSE LET total_amount ==
                     or_0(Sum(d.invoices, DOMAIN d.invoices, "total_amount"), 0)
                 total_paid == or_0(Sum(d.payments, DOMAIN d.payments, "amount"), 0)
                 total_pending == total_amount - total_paid
             IN  render("reports/fee_report.html",
                     [total_amount |-> total_amount,
                      total_paid |-> total_paid,
                      total_pending |-> total_pending,
                      invoices_by_status |-> values_count(d.invoices, "status"),
                      payments_by_method |->
                          values_count_total(d.payments, "payment_method", "amount")]))

----------------------------------------------------------------------------
(* PDF report views (src/reports/views.py).  The response of a PDF view is *)
(* modelled by the values it draws.                                        *)

(* plt.pie rejects a negative wedge size; what it does with wedge sizes    *)
(* that are all zero depends on the installed library.                      *)
plt_pie(x, mpl) ==
    IF \E i \in DOMAIN x : x[i] < 0 THEN "ValueError"
    ELSE IF x # <<>> /\ (\A i \in DOMAIN x : x[i] = 0) /\ mpl = "zero_sum_raises"
         THEN "ValueError"
         ELSE "drawn"


(* Mutant: divides by total_enrollments without the zero guard. *)
student_report_pdf_unguarded(request, d) ==
    login_required(request,
        IF ~request.user.is_admin THEN HttpResponse(403, "Not authorized")
        ELSE LET active == count(d.enrollments, [status |-> "active"])
                 completed == count(d.enrollments, [status |-> "completed"])
                 dropped == count(d.enrollments, [status |-> "dropped"])
                 total_enrollments == active + completed + dropped
             IN  render("Student_Report.pdf",
                     [total_students |-> count(d.students, all_rows),
                      students_by_gender |-> values_count(d.students, "gender"),
                      active |-> active, completed |-> completed, dropped |-> dropped,
                      total_enrollments |-> total_enrollments,
                      active_percent |-> Ratio(active * 100, total_enrollments)]))

student_report_pdf(request, d) ==
    login_required(request,
        IF ~request.user.is_admin THEN HttpResponse(403, "Not authorized")
        ELSE LET active == count(d.enrollments, [status |-> "active"])
                 completed == count(d.enrollments, [status |-> "completed"])
                 dropped == count(d.enrollments, [status |-> "dropped"])
                 total_enrollments == active + completed + dropped
             IN  render("Student_Report.pdf",
                     [total_students |-> count(d.students, all_rows),
                      students_by_gender |-> values_count(d.students, "gender"),
                      active |-> active, completed |-> completed, dropped |-> dropped,
                      total_enrollments |-> total_enrollments,
                      active_percent |->
                          IF total_enrollments # 0
                          THEN Ratio(active * 100, total_enrollments)
                          ELSE Ratio(0, 1)]))

teacher_report_pdf(request, d) ==
    login_required(request,
        IF ~request.user.is_admin THEN HttpResponse(403, "Not authorized")
        ELSE render("Teacher_Report.pdf",
                 [total_teachers |-> count(d.teachers, all_rows),
                  teachers_by_gender |-> values_count(d.teachers, "gender"),
                  avg_experience |->
                      or_0(Avg(d.teachers, DOMAIN d.teachers, "experience"), Ratio(0, 1)),
                  course_count |->
                      [t \in DOMAIN d.teachers |->
                          Cardinality(teacher_courses(d, t))]]))

course_report_pdf(request, d) ==
    login_required(request,
        IF ~request.user.is_admin THEN HttpResponse(403, "Not authorized")
        ELSE render("Course_Report.pdf",
                 [total_courses |-> count(d.courses, all_rows),
                  student_count |-> student_count(d),
                  active_counts |->
                      [c \in DOMAIN d.courses |-> status_count(d, c, "active")],
                  completed_counts |->
                      [c \in DOMAIN d.courses |-> status_count(d, c, "completed")],
                  dropped_counts |->
                      [c \in DOMAIN d.courses |-> status_count(d, c, "dropped")]]))

(* next((x["count"] for x in attendance_status if x["status"] == status), 0) *)
next_count(attendance_status, status) ==
    IF status \in DOMAIN attendance_status THEN attendance_status[status] ELSE 0

attendance_report_pdf(request, d) ==
    login_required(request,
        IF ~request.user.is_admin THEN HttpResponse(403, "Not authorized")
        ELSE LET attendance_status == values_count(d.student_attendance, "status")
             IN  render("Attendance_Report.pdf",
                     [attendance_status |-> attendance_status,
                      present |-> next_count(attendance_status, "present"),
                      absent |-> next_count(attendance_status, "absent"),
                      late |-> next_count(attendance_status, "late"),
                      excused |-> next_count(attendance_status, "excused")]))

fee_report_pdf(request, d, mpl) ==
    login_required(request,
        IF ~request.user.is_admin THEN HttpResponse(403, "Not authorized")
        ELSE LET total_amount ==
                     or_0(Sum(d.invoices, DOMAIN d.invoices, "total_amount"), 0)
                 total_paid == or_0(Sum(d.payments, DOMAIN d.payments, "amount"), 0)
                 pending_amount == total_amount - total_paid
             IN  IF plt_pie(<<total_paid, pending_amount>>, mpl) # "drawn"
                 THEN HttpResponse(500, plt_pie(<<total_paid, pending_amount>>, mpl))
                 ELSE render("Fees_Report.pdf",
                          [total_amount |-> total_amount,
                           total_paid |-> total_paid,
                           pending_amount |-> pending_amount,
                           invoice_status |-> values_count(d.invoices, "status"),
                           payments_by_method |->
                               values_count_total(d.payments, "payment_method", "amount")]))

----------------------------------------------------------------------------
(* Detail views (src/students/views.py, src/teachers/views.py). *)

(* AdminRequiredMixin.test_func *)
test_func(request) == request.authenticated /\ request.user.is_admin

student_context(student, d) ==
    LET enrollments == filter(d.enrollments, [student |-> student])
        attendance_records == filter(d.student_attendance, [student |-> student])
        attendance_stats ==
            [present |-> records_count(d, attendance_records, "present"),
             absent |-> records_count(d, attendance_records, "absent"),
             late |-> records_count(d, attendance_records, "late"),
             excused |-> records_count(d, attendance_records, "excused")]
        total == attendance_stats.present + attendance_stats.absent
                 + attendance_stats.late + attendance_stats.excused
        invoices == filter(d.invoices, [student |-> student])
        total_fees == or_0(Sum(d.invoices, invoices, "total_amount"), 0)
        total_paid == or_0(Sum(d.invoices, invoices, "paid_amount"), 0)
    IN  [student |-> student,
         enrollments |-> enrollments,
         course_count |-> Cardinality(enrollments),
         attendance_stats |-> attendance_stats,
         present_percentage |->
             IF total > 0 THEN Ratio(attendance_stats.present * 100, total)
             ELSE Ratio(0, 1),
         recent_attendance |-> attendance_records,
         total_fees |-> total_fees,
         total_paid |-> total_paid,
         total_pending |-> total_fees - total_paid]

StudentDetailView(request, pk, d) ==
    login_required(request,
        IF ~test_func(request) THEN HttpResponse(403, "PermissionDenied")
        ELSE IF pk \notin DOMAIN d.students THEN HttpResponse(404, "Http404")
        ELSE render("students/student_detail.html", student_context(pk, d)))

AttendanceStatusKeys == {"present", "absent", "late", "excused"}

teacher_context(teacher, d) ==
    LET courses == teacher_courses(d, teacher)
        rows == {pk \in DOMAIN d.student_attendance :
                    d.attendance_records[d.student_attendance[pk].attendance_record].course
                        \in courses}
        attendance_stats ==
            [present |-> records_count(d, rows, "present"),
             absent |-> records_count(d, rows, "absent"),
             late |-> records_count(d, rows, "late"),
             excused |-> records_count(d, rows, "excused")]
        total_attendance == attendance_stats.present + attendance_stats.absent
                            + attendance_stats.late + attendance_stats.excused
        reviews == filter(d.reviews, [teacher |-> teacher])
    IN  IF \E pk \in rows : d.student_attendance[pk].status \notin AttendanceStatusKeys
        THEN HttpResponse(500, "KeyError")
        ELSE render("teachers/teacher_detail.html",
                 [teacher |-> teacher,
                  user |-> d.teachers[teacher].user,
                  courses |-> courses,
                  course_students |->
                      [course \in courses |-> status_count(d, course, "active")],
                  course_count |-> Cardinality(courses),
                  attendance_stats |-> attendance_stats,
                  present_percentage |->
                      IF total_attendance > 0
                      THEN Ratio(attendance_stats.present * 100, total_attendance)
                      ELSE Ratio(0, 1),
                  reviews |-> reviews,
                  avg_rating |-> or_0(Avg(d.reviews, reviews, "rating"), Ratio(0, 1)),
                  publications |-> filter(d.publications, [teacher |-> teacher])])

(* Mutant: any teacher may see any profile. *)
TeacherDetailView_any_teacher(request, pk, d) ==
    IF pk \notin DOMAIN d.teachers THEN HttpResponse(404, "Http404")
    ELSE IF ~request.authenticated THEN HttpResponse(500, "AttributeError")
    ELSE IF request.user.is_admin THEN login_required(request, teacher_context(pk, d))
    ELSE IF request.user.is_teacher
         THEN login_required(request, teacher_context(pk, d))
         ELSE HttpResponse(403, "PermissionDenied")

(* TeacherDetailView.dispatch; an anonymous user has no is_admin attribute. *)
TeacherDetailView(request, pk, d) ==
    IF pk \notin DOMAIN d.teachers THEN HttpResponse(404, "Http404")
    ELSE IF ~request.authenticated THEN HttpResponse(500, "AttributeError")
    ELSE IF request.user.is_admin THEN login_required(request, teacher_context(pk, d))
    ELSE IF request.user.is_teacher /\ request.user.id = d.teachers[pk].user
         THEN login_required(request, teacher_context(pk, d))
         ELSE HttpResponse(403, "PermissionDenied")

----------------------------------------------------------------------------
(* Inputs. *)

Pieces == {"java", "script", "c++", "machine", "learning", "Python", " ", "\n", "x"}

RECURSIVE TextsUpTo(_)
TextsUpTo(n) ==
    IF n = 0 THEN {""}
    ELSE LET T == TextsUpTo(n - 1) IN T \cup {t \o p : t \in T, p \in Pieces}

Texts == TextsUpTo(MaxPieces) \cup {None}

SkillNames == {"Python", "python", "SQL", "Docker"}

RECURSIVE SeqsUpTo(_, _)
SeqsUpTo(S, n) ==
    IF n = 0 THEN {<<>>}
    ELSE LET T == SeqsUpTo(S, n - 1) IN T \cup {Append(t, x) : t \in T, x \in S}

SkillLists == SeqsUpTo(SkillNames, MaxSkills)

PageTexts == {"", "Experienced in Python and React", "c++ and machine\nlearning"}

JobPosts ==
    {None, "  ", "Requires Python, React, Docker", " python c++\n", "no skills here"}

Files ==
    {[present |-> TRUE, readable |-> TRUE, pages |-> pp, error |-> ""] :
        pp \in SeqsUpTo(PageTexts, MaxPages)}
    \cup {[present |-> TRUE, readable |-> FALSE, pages |-> <<>>, error |-> "EOF marker not found"],
          [present |-> FALSE, readable |-> FALSE, pages |-> <<>>, error |-> ""]}

Methods == {"GET", "POST"}

----------------------------------------------------------------------------
(* Stored data and requests of the report and detail views. *)

(* accounts.User: is_admin, is_teacher and is_student follow user_type. *)
User(id, user_type) ==
    [id |-> id, is_admin |-> user_type = "admin", is_teacher |-> user_type = "teacher",
     is_student |-> user_type = "student"]

ReportRequests ==
    {[authenticated |-> TRUE, user |-> User(1, "admin")],
     [authenticated |-> TRUE, user |-> User(4, "student")],
     [authenticated |-> FALSE, user |-> User(0, "anonymous")]}

DetailRequests ==
    ReportRequests \cup {[authenticated |-> TRUE, user |-> User(id, "teacher")] : id \in {2, 3}}

EnrollmentStatuses == {"active", "completed", "dropped"}

AttendanceStatuses == {"present", "absent", "late", "excused"}

(* Two students, two teachers (users 2 and 3), three courses, the third    *)
(* taught by both teachers and never attended.                             *)
BaseDb ==
    [EmptyDb EXCEPT
        !.students = <<[gender |-> "F"], [gender |-> "M"]>>,
        !.teachers = <<[user |-> 2, gender |-> "F", experience |-> 2],
                       [user |-> 3, gender |-> "M", experience |-> 5]>>,
        !.courses = <<[teachers |-> {1}], [teachers |-> {2}], [teachers |-> {1, 2}]>>,
        !.attendance_records = <<[course |-> 1], [course |-> 2]>>,
        !.reviews = <<[teacher |-> 1, rating |-> 4], [teacher |-> 1, rating |-> 5],
                      [teacher |-> 2, rating |-> 3]>>,
        !.publications = <<[teacher |-> 1]>>]

EnrollmentRows == [student : 1..2, course : 1..2, status : EnrollmentStatuses]

EnrollmentDbs ==
    {EmptyDb} \cup
    {[BaseDb EXCEPT !.enrollments = e] : e \in SeqsUpTo(EnrollmentRows, MaxEnrollments)}

AttendanceRows == [attendance_record : 1..2, student : 1..2, status : AttendanceStatuses]

AttendanceDbs ==
    {EmptyDb} \cup
    {[BaseDb EXCEPT !.student_attendance = a] : a \in SeqsUpTo(AttendanceRows, MaxAttendance)}

TeacherDbs ==
    {EmptyDb} \cup
    {[EmptyDb EXCEPT !.teachers = t,
                     !.courses = <<[teachers |-> DOMAIN t], [teachers |-> DOMAIN t \ {1}]>>] :
        t \in SeqsUpTo([user : {2}, gender : {"F", "M"}, experience : {2, 5}],
                      MaxTeachers)}

InvoiceRows ==
    {[student |-> st, total_amount |-> 100, paid_amount |-> paid,
      status |-> IF paid = 100 THEN "paid" ELSE "pending"] :
        st \in 1..2, paid \in {0, 100}}

PaymentRows(invoices) ==
    {[invoice |-> i, amount |-> 60,
      payment_method |-> IF i = 1 THEN "cash" ELSE "card"] : i \in DOMAIN invoices}

FeeDbs ==
    {EmptyDb} \cup
    UNION {{[BaseDb EXCEPT !.invoices = i, !.payments = pay] :
                pay \in SeqsUpTo(PaymentRows(i), MaxPayments)} :
           i \in SeqsUpTo(InvoiceRows, MaxInvoices)}

----------------------------------------------------------------------------
(* State machine.  _nlp is fixed when the module is imported.  A behaviour *)
(* is one call of a function of core.py or one request to a view: the      *)
(* initial state holds the call and its arguments (pc = "call"), the step  *)
(* runs it and records its result (pc = "return").                         *)

Requests ==
    [authenticated : BOOLEAN, method : Methods, job : JobPosts, resume : Files]

IndexRequests == [authenticated : BOOLEAN, method : Methods]

Init ==
    /\ django = "post_calls_form_valid"
    /\ _nlp \in NlpStates
    /\ pc = "call"
    /\ ret = <<>>
    /\ db = EmptyDb
    /\ matplotlib = "zero_sum_draws"
    /\ served = 0
    /\ \/ op = "extract_skills" /\ arg \in [text : Texts]
       \/ /\ op \in {"compare_skills", "calculate_ats_percentage"}
          /\ arg \in [resume_skills : SkillLists, job_skills : SkillLists]
       \/ op = "analyze" /\ arg \in Requests
       \/ op = "index" /\ arg \in IndexRequests

ExtractSkills ==
    /\ pc = "call" /\ op = "extract_skills"
    /\ ret' = extract_skills(arg.text)
    /\ pc' = "return"
    /\ UNCHANGED <<_nlp, op, arg, db, matplotlib, served, django>>

CompareSkills ==
    /\ pc = "call" /\ op = "compare_skills"
    /\ ret' = compare_skills(arg.resume_skills, arg.job_skills)
    /\ pc' = "return"
    /\ UNCHANGED <<_nlp, op, arg, db, matplotlib, served, django>>

CalculateAtsPercentage ==
    /\ pc = "call" /\ op = "calculate_ats_percentage"
    /\ ret' = calculate_ats_percentage(arg.resume_skills, arg.job_skills)
    /\ pc' = "return"
    /\ UNCHANGED <<_nlp, op, arg, db, matplotlib, served, django>>

Analyze ==
    /\ pc = "call" /\ op = "analyze"
    /\ ret' = analyze_view(arg)
    /\ pc' = "return"
    /\ UNCHANGED <<_nlp, op, arg, db, matplotlib, served, django>>

Index ==
    /\ pc = "call" /\ op = "index"
    /\ ret' = index_view(arg)
    /\ pc' = "return"
    /\ UNCHANGED <<_nlp, op, arg, db, matplotlib, served, django>>

Next ==
    \/ ExtractSkills
    \/ CompareSkills
    \/ CalculateAtsPercentage
    \/ Analyze
    \/ Index

Spec == Init /\ [][Next]_vars

TypeOK ==
    /\ _nlp \in NlpStates
    /\ pc \in {"call", "return", "courses", "active", "completed", "dropped", "render"}
    /\ op \in {"extract_skills", "compare_skills", "calculate_ats_percentage",
               "analyze", "index",
               "student_report", "teacher_report", "course_report",
               "attendance_report", "fee_report",
               "student_report_pdf", "teacher_report_pdf", "course_report_pdf",
               "attendance_report_pdf", "fee_report_pdf",
               "student_detail", "teacher_detail", "teacher_xls",
               "publication_add", "publication_edit", "publication_delete",
               "student_enrollment_list", "student_add", "teacher_add",
               "student_delete", "teacher_delete", "course_list",
               "dummy_data_command", "dummy_data_script"}
    /\ matplotlib \in {"zero_sum_draws", "zero_sum_raises"}
    /\ served \in 0..MaxRequests
    /\ django \in {"post_calls_delete", "post_calls_form_valid"}

----------------------------------------------------------------------------
(* Report and detail requests.  A behaviour is one request to a report or  *)
(* detail view over some stored data.                                      *)

(* TeacherXLSDownload.get: a class-based view without login_required or   *)
(* LoginRequiredMixin; AnonymousUser has no is_admin attribute.  The       *)
(* workbook has one row per teacher: gender, experience, course count.     *)
TeacherXLSDownload(request, d) ==
    IF ~request.authenticated THEN HttpResponse(500, "AttributeError")
    ELSE IF ~request.user.is_admin THEN HttpResponse(200, "Not authorized")
    ELSE render("Teacher_Report.xlsx",
             [rows |-> [t \in DOMAIN d.teachers |->
                           [gender |-> d.teachers[t].gender,
                            experience |-> d.teachers[t].experience,
                            course_count |-> Cardinality(teacher_courses(d, t))]]])

InitReports ==
    /\ django = "post_calls_form_valid"
    /\ _nlp = None
    /\ pc = "call"
    /\ ret = <<>>
    /\ served = 0
    /\ \/ /\ op \in {"student_report", "student_report_pdf",
                     "course_report", "course_report_pdf"}
          /\ arg \in [request : ReportRequests]
          /\ db \in EnrollmentDbs
          /\ matplotlib = "zero_sum_draws"
       \/ /\ op \in {"teacher_report", "teacher_report_pdf", "teacher_xls"}
          /\ arg \in [request : ReportRequests]
          /\ db \in TeacherDbs
          /\ matplotlib = "zero_sum_draws"
       \/ /\ op \in {"attendance_report", "attendance_report_pdf"}
          /\ arg \in [request : ReportRequests]
          /\ db \in AttendanceDbs
          /\ matplotlib = "zero_sum_draws"
       \/ /\ op = "fee_report"
          /\ arg \in [request : ReportRequests]
          /\ db \in FeeDbs
          /\ matplotlib = "zero_sum_draws"
       \/ /\ op = "fee_report_pdf"
          /\ arg \in [request : ReportRequests]
          /\ db \in FeeDbs
          /\ matplotlib \in {"zero_sum_draws", "zero_sum_raises"}
       \/ /\ op = "student_detail"
          /\ arg \in [request : ReportRequests, pk : 1..2]
          /\ db \in AttendanceDbs \cup FeeDbs
          /\ matplotlib = "zero_sum_draws"
       \/ /\ op = "teacher_detail"
          /\ arg \in [request : DetailRequests, pk : 1..2]
          /\ db \in AttendanceDbs
          /\ matplotlib = "zero_sum_draws"

StudentReport ==
    /\ pc = "call" /\ op = "student_report"
    /\ ret' = student_report(arg.request, db)
    /\ pc' = "return"
    /\ UNCHANGED <<_nlp, op, arg, db, matplotlib, served, django>>

TeacherReport ==
    /\ pc = "call" /\ op = "teacher_report"
    /\ ret' = teacher_report(arg.request, db)
    /\ pc' = "return"
    /\ UNCHANGED <<_nlp, op, arg, db, matplotlib, served, django>>

CourseReport ==
    /\ pc = "call" /\ op = "course_report"
    /\ ret' = course_report(arg.request, db)
    /\ pc' = "return"
    /\ UNCHANGED <<_nlp, op, arg, db, matplotlib, served, django>>

AttendanceReport ==
    /\ pc = "call" /\ op = "attendance_report"
    /\ ret' = attendance_report(arg.request, db)
    /\ pc' = "return"
    /\ UNCHANGED <<_nlp, op, arg, db, matplotlib, served, django>>

FeeReport ==
    /\ pc = "call" /\ op = "fee_report"
    /\ ret' = fee_report(arg.request, db)
    /\ pc' = "return"
    /\ UNCHANGED <<_nlp, op, arg, db, matplotlib, served, django>>

StudentReportPdf ==
    /\ pc = "call" /\ op = "student_report_pdf"
    /\ ret' = student_report_pdf(arg.request, db)
    /\ pc' = "return"
    /\ UNCHANGED <<_nlp, op, arg, db, matplotlib, served, django>>

TeacherReportPdf ==
    /\ pc = "call" /\ op = "teacher_report_pdf"
    /\ ret' = teacher_report_pdf(arg.request, db)
    /\ pc' = "return"
    /\ UNCHANGED <<_nlp, op, arg, db, matplotlib, served, django>>

CourseReportPdf ==
    /\ pc = "call" /\ op = "course_report_pdf"
    /\ ret' = course_report_pdf(arg.request, db)
    /\ pc' = "return"
    /\ UNCHANGED <<_nlp, op, arg, db, matplotlib, served, django>>

AttendanceReportPdf ==
    /\ pc = "call" /\ op = "attendance_report_pdf"
    /\ ret' = attendance_report_pdf(arg.request, db)
    /\ pc' = "return"
    /\ UNCHANGED <<_nlp, op, arg, db, matplotlib, served, django>>

FeeReportPdf ==
    /\ pc = "call" /\ op = "fee_report_pdf"
    /\ ret' = fee_report_pdf(arg.request, db, matplotlib)
    /\ pc' = "return"
    /\ UNCHANGED <<_nlp, op, arg, db, matplotlib, served, django>>

StudentDetail ==
    /\ pc = "call" /\ op = "student_detail"
    /\ ret' = StudentDetailView(arg.request, arg.pk, db)
    /\ pc' = "return"
    /\ UNCHANGED <<_nlp, op, arg, db, matplotlib, served, django>>

TeacherDetail ==
    /\ pc = "call" /\ op = "teacher_detail"
    /\ ret' = TeacherDetailView(arg.request, arg.pk, db)
    /\ pc' = "return"
    /\ UNCHANGED <<_nlp, op, arg, db, matplotlib, served, django>>

TeacherXls ==
    /\ pc = "call" /\ op = "teacher_xls"
    /\ ret' = TeacherXLSDownload(arg.request, db)
    /\ pc' = "return"
    /\ UNCHANGED <<_nlp, op, arg, db, matplotlib, served, django>>

NextReports ==
    \/ StudentReport
    \/ TeacherReport
    \/ CourseReport
    \/ AttendanceReport
    \/ FeeReport
    \/ StudentReportPdf
    \/ TeacherReportPdf
    \/ TeacherXls
    \/ CourseReportPdf
    \/ AttendanceReportPdf
    \/ FeeReportPdf
    \/ StudentDetail
    \/ TeacherDetail

SpecReports == InitReports /\ [][NextReports]_vars

----------------------------------------------------------------------------
(* Writes to the stored data. *)

Max(S) == CHOOSE x \in S : \A y \in S : y <= x

(* Model.objects.create: the new row gets the next primary key. *)
insert(table, row) ==
    LET pk == IF DOMAIN table = {} THEN 1 ELSE Max(DOMAIN table) + 1
    IN  [i \in DOMAIN table \cup {pk} |-> IF i = pk THEN row ELSE table[i]]

apply_write(w, d) ==
    CASE w.kind = "create" -> [d EXCEPT ![w.table] = insert(d[w.table], w.row)]
      [] w.kind = "update" ->
             IF w.pk \in DOMAIN d[w.table]
             THEN [d EXCEPT ![w.table] = [d[w.table] EXCEPT ![w.pk] = w.row]]
             ELSE d
      [] w.kind = "delete" ->
             [d EXCEPT ![w.table] = [i \in DOMAIN d[w.table] \ {w.pk} |-> d[w.table][i]]]

RECURSIVE apply_writes(_, _)
apply_writes(ws, d) ==
    IF ws = <<>> THEN d ELSE apply_writes(Tail(ws), apply_write(Head(ws), d))

(* Mutant: the course report removes the newest enrollment row. *)
view_writes_pruning(f, request, d) ==
    IF f = "course_report" /\ DOMAIN d.enrollments # {}
    THEN <<[kind |-> "delete", table |-> "enrollments", pk |-> Max(DOMAIN d.enrollments)]>>
    ELSE <<>>

(* The writes a report or analysis view issues: its queries are counts,    *)
(* aggregates, filters and existence tests, and the analysis reads only    *)
(* the upload.                                                             *)
view_writes(f, request, d) == <<>>

ReportViews ==
    {"student_report", "teacher_report", "course_report", "attendance_report",
     "fee_report", "student_report_pdf", "teacher_report_pdf", "course_report_pdf",
     "attendance_report_pdf", "fee_report_pdf"}

(* urlpatterns of reports/urls.py *)
report_view(f, request, d, mpl) ==
    CASE f = "student_report" -> student_report(request, d)
      [] f = "teacher_report" -> teacher_report(request, d)
      [] f = "course_report" -> course_report(request, d)
      [] f = "attendance_report" -> attendance_report(request, d)
      [] f = "fee_report" -> fee_report(request, d)
      [] f = "student_report_pdf" -> student_report_pdf(request, d)
      [] f = "teacher_report_pdf" -> teacher_report_pdf(request, d)
      [] f = "course_report_pdf" -> course_report_pdf(request, d)
      [] f = "attendance_report_pdf" -> attendance_report_pdf(request, d)
      [] f = "fee_report_pdf" -> fee_report_pdf(request, d, mpl)

----------------------------------------------------------------------------
(* Sequences of requests.  A behaviour serves up to MaxRequests report and *)
(* analysis requests, in any order, over one database; op, arg and ret     *)
(* hold the last request served and its response.                          *)

OneRowDbs ==
    {EmptyDb, BaseDb}
    \cup {[BaseDb EXCEPT !.enrollments = <<e>>] : e \in EnrollmentRows}
    \cup {[BaseDb EXCEPT !.student_attendance = <<a>>] : a \in AttendanceRows}
    \cup UNION {{[BaseDb EXCEPT !.invoices = <<i>>, !.payments = <<pay>>] :
                    pay \in PaymentRows(<<i>>)} : i \in InvoiceRows}

AnalysisRequests ==
    {r \in Requests :
        /\ r.authenticated /\ r.method = "POST"
        /\ r.job \in {None, "Requires Python, React, Docker"}
        /\ r.resume.pages \in {<<>>, <<"Experienced in Python and React">>}}

InitRequests ==
    /\ django = "post_calls_form_valid"
    /\ _nlp \in {None, "ws"}
    /\ pc = "return"
    /\ op = "index"
    /\ arg = [authenticated |-> TRUE, method |-> "GET"]
    /\ ret = index_view(arg)
    /\ db \in OneRowDbs
    /\ matplotlib = "zero_sum_draws"
    /\ served = 0

ServeReport ==
    /\ served < MaxRequests
    /\ \E f \in ReportViews, request \in ReportRequests :
           /\ op' = f
           /\ arg' = [request |-> request]
           /\ ret' = report_view(f, request, db, matplotlib)
           /\ db' = apply_writes(view_writes(f, request, db), db)
    /\ served' = served + 1
    /\ UNCHANGED <<_nlp, pc, matplotlib, django>>

ServeAnalysis ==
    /\ served < MaxRequests
    /\ \E request \in AnalysisRequests :
           /\ op' = "analyze"
           /\ arg' = request
           /\ ret' = analyze_view(request)
           /\ db' = apply_writes(view_writes("analyze", request, db), db)
    /\ served' = served + 1
    /\ UNCHANGED <<_nlp, pc, matplotlib, django>>

NextRequests ==
    \/ ServeReport
    \/ ServeAnalysis

SpecRequests == InitRequests /\ [][NextRequests]_vars

----------------------------------------------------------------------------
(* A course report running concurrently with enrollment writes.  The view  *)
(* opens no transaction: each query of reports/views.py:92-112 is a step   *)
(* of its own and sees the data as it is then.  While the request runs,    *)
(* ret holds the view's local variables; the enrollment views of           *)
(* courses/views.py run between the steps.                                 *)

ConcurrentDbs ==
    {BaseDb} \cup {[BaseDb EXCEPT !.enrollments = <<e>>] : e \in EnrollmentRows}

InitConcurrent ==
    /\ django = "post_calls_form_valid"
    /\ _nlp = None
    /\ matplotlib = "zero_sum_draws"
    /\ pc = "call"
    /\ op = "course_report"
    /\ arg = [request |-> [authenticated |-> TRUE, user |-> User(1, "admin")]]
    /\ ret = <<>>
    /\ db \in ConcurrentDbs
    /\ served = 0

(* total_courses = Course.objects.count() *)
CountCourses ==
    /\ pc = "call" /\ op = "course_report"
    /\ ret' = [total_courses |-> count(db.courses, all_rows),
               courses |-> <<>>, active |-> 0, completed |-> 0,
               course_enrollments |-> <<>>]
    /\ pc' = "courses"
    /\ UNCHANGED <<_nlp, op, arg, db, matplotlib, served, django>>

(* for course in Course.objects.all() *)
FetchCourses ==
    /\ pc = "courses"
    /\ ret' = [ret EXCEPT !.courses = [i \in 1..Len(db.courses) |-> i]]
    /\ pc' = IF db.courses = <<>> THEN "render" ELSE "active"
    /\ UNCHANGED <<_nlp, op, arg, db, matplotlib, served, django>>

CountActive ==
    /\ pc = "active"
    /\ ret' = [ret EXCEPT !.active = status_count(db, Head(ret.courses), "active")]
    /\ pc' = "completed"
    /\ UNCHANGED <<_nlp, op, arg, db, matplotlib, served, django>>

CountCompleted ==
    /\ pc = "completed"
    /\ ret' = [ret EXCEPT !.completed = status_count(db, Head(ret.courses), "completed")]
    /\ pc' = "dropped"
    /\ UNCHANGED <<_nlp, op, arg, db, matplotlib, served, django>>

(* the dropped count, then course_enrollments.append({...}) *)
CountDropped ==
    /\ pc = "dropped"
    /\ LET dropped == status_count(db, Head(ret.courses), "dropped")
       IN  ret' = [ret EXCEPT
                      !.courses = Tail(ret.courses),
                      !.course_enrollments =
                          Append(ret.course_enrollments,
                                 [active |-> ret.active, completed |-> ret.completed,
                                  dropped |-> dropped,
                                  total |-> ret.active + ret.completed + dropped])]
    /\ pc' = IF Tail(ret.courses) = <<>> THEN "render" ELSE "active"
    /\ UNCHANGED <<_nlp, op, arg, db, matplotlib, served, django>>

(* render evaluates the lazy queryset courses_with_students. *)
RenderCourseReport ==
    /\ pc = "render"
    /\ ret' = render("reports/course_report.html",
                  [total_courses |-> ret.total_courses,
                   courses_with_students |-> student_count(db),
                   course_enrollments |-> ret.course_enrollments])
    /\ pc' = "return"
    /\ UNCHANGED <<_nlp, op, arg, db, matplotlib, served, django>>

EnrollmentCreate ==
    /\ pc # "return" /\ served < MaxRequests
    /\ \E row \in EnrollmentRows :
           db' = apply_write([kind |-> "create", table |-> "enrollments", row |-> row], db)
    /\ served' = served + 1
    /\ UNCHANGED <<_nlp, pc, op, arg, ret, matplotlib, django>>

EnrollmentUpdate ==
    /\ pc # "return" /\ served < MaxRequests
    /\ \E pk \in DOMAIN db.enrollments, status \in EnrollmentStatuses :
           db' = apply_write([kind |-> "update", table |-> "enrollments", pk |-> pk,
                              row |-> [db.enrollments[pk] EXCEPT !.status = status]], db)
    /\ served' = served + 1
    /\ UNCHANGED <<_nlp, pc, op, arg, ret, matplotlib, django>>

EnrollmentDelete ==
    /\ pc # "return" /\ served < MaxRequests
    /\ \E pk \in DOMAIN db.enrollments :
           db' = apply_write([kind |-> "delete", table |-> "enrollments", pk |-> pk], db)
    /\ served' = served + 1
    /\ UNCHANGED <<_nlp, pc, op, arg, ret, matplotlib, django>>

NextConcurrent ==
    \/ CountCourses
    \/ FetchCourses
    \/ CountActive
    \/ CountCompleted
    \/ CountDropped
    \/ RenderCourseReport
    \/ EnrollmentCreate
    \/ EnrollmentUpdate
    \/ EnrollmentDelete

SpecConcurrent == InitConcurrent /\ [][NextConcurrent]_vars

----------------------------------------------------------------------------
(* Properties of calculate_ats_percentage and compare_skills. *)

Returned(f) == pc = "return" /\ op = f

(* C1: for any two skill lists with a non-empty job list,                  *)
(* calculate_ats_percentage equals 100 x |R \cap J| / |J|, R and J being   *)
(* the sets of lower-cased resume and job skills; so it is 100 whenever    *)
(* every job skill occurs in the resume list ignoring case.                *)
C1_AtsIsSetCoverage ==
    (Returned("calculate_ats_percentage") /\ arg.job_skills # <<>>) =>
        LET R == LowerSet(arg.resume_skills)
            J == LowerSet(arg.job_skills)
        IN  /\ ret = Ratio(100 * Cardinality(R \cap J), Cardinality(J))
            /\ (J \subseteq R => ret = Ratio(100, 1))

(* C2: calculate_ats_percentage returns 0 for every resume-skill list when *)
(* the job-skill list is empty, and no division by zero happens.           *)
C2_EmptyJobListScoresZero ==
    (Returned("calculate_ats_percentage") /\ arg.job_skills = <<>>) =>
        ret = [num |-> 0, den |-> 1]

C2_Witness ==
    /\ Returned("calculate_ats_percentage")
    /\ arg.job_skills = <<>>
    /\ Len(arg.resume_skills) = MaxSkills
    /\ ret.num = 0

KthSmallest(S, k) == CHOOSE x \in S : Cardinality({y \in S : y < x}) = k - 1

MissingIndexes(resume_skills, job_skills) ==
    {i \in DOMAIN job_skills :
        \A j \in DOMAIN resume_skills : lower(job_skills[i]) # lower(resume_skills[j])}

(* C3: compare_skills returns exactly the job skills whose lower-cased     *)
(* form is not the lower-cased form of any resume skill, in the order of   *)
(* job_skills, and leaves both argument lists as they were.                *)
C3_CompareSkillsIsOrderedDifference ==
    [][(pc = "call" /\ op = "compare_skills") =>
         LET keep == MissingIndexes(arg.resume_skills, arg.job_skills)
         IN  /\ arg' = arg
             /\ Len(ret') = Cardinality(keep)
             /\ \A k \in 1..Len(ret') : ret'[k] = arg.job_skills[KthSmallest(keep, k)]
             /\ \A k \in 1..Len(ret') :
                    lower(ret'[k]) \notin LowerSet(arg.resume_skills)]_vars

C3_Witness ==
    /\ Returned("compare_skills")
    /\ arg.resume_skills = <<"python", "SQL">>
    /\ arg.job_skills = <<"Python", "Docker">>
    /\ ret = <<"Docker">>

----------------------------------------------------------------------------
(* Properties of analyze_resume_file_and_job and the analyze view. *)

ValidRequest(request) ==
    /\ request.authenticated
    /\ request.method = "POST"
    /\ request.job # None /\ strip(request.job) # ""
    /\ request.resume.present

ExampleResume ==
    [present |-> TRUE, readable |-> TRUE,
     pages |-> <<"Experienced in Python and React">>, error |-> ""]

ExampleJob == "Requires Python, React, Docker"

(* C4: the result of analyze_resume_file_and_job for a readable resume is  *)
(* consistent: missingSkills is jobSkills minus resumeSkills ignoring      *)
(* case, in the order of jobSkills, and atsPercentage is                   *)
(* 100 x (|jobSkills| - |missingSkills|) / |jobSkills| (0 for no job       *)
(* skills); resume skills {Python, React} and job skills {Python, React,   *)
(* Docker} give missingSkills [Docker] and 200/3.                          *)
C4_AnalysisIsConsistent ==
    (Returned("analyze") /\ ValidRequest(arg) /\ arg.resume.readable) =>
        /\ ret.status = 200
        /\ LET r == ret.json
               keep == MissingIndexes(r.resumeSkills, r.jobSkills)
           IN  /\ Len(r.missingSkills) = Cardinality(keep)
               /\ \A k \in 1..Len(r.missingSkills) :
                      r.missingSkills[k] = r.jobSkills[KthSmallest(keep, k)]
               /\ r.atsPercentage =
                      (IF r.jobSkills = <<>> THEN Ratio(0, 1)
                       ELSE Ratio(100 * (Len(r.jobSkills) - Len(r.missingSkills)),
                                  Len(r.jobSkills)))
               /\ (arg.resume = ExampleResume /\ arg.job = ExampleJob) =>
                      /\ r.resumeSkills = <<"Python", "React">>
                      /\ Range(r.jobSkills) = {"Python", "React", "Docker"}
                      /\ r.missingSkills = <<"Docker">>
                      /\ r.atsPercentage = [num |-> 200, den |-> 3]

C4_Witness ==
    /\ Returned("analyze")
    /\ ValidRequest(arg)
    /\ arg.resume = ExampleResume
    /\ arg.job = ExampleJob
    /\ ret.status = 200
    /\ ret.json.missingSkills = <<"Docker">>

----------------------------------------------------------------------------
(* Properties of extract_skills. *)

SingleWordTerms == {kw \in Range(_SKILL_KEYWORDS) : ~InStr(" ", kw)}

Occurrences(kw, s) ==
    {i \in 1..(Len(s) - Len(kw) + 1) : SubSeq(s, i, i + Len(kw) - 1) = kw}

OnlyInsideWords(kw, s) ==
    \A i \in Occurrences(kw, s) : WordAt(s, i - 1) \/ WordAt(s, i + Len(kw))

(* C5: a single-word vocabulary term whose every occurrence in the         *)
(* lower-cased text is directly preceded or directly followed by a letter, *)
(* digit or underscore is not reported by extract_skills, while the longer *)
(* vocabulary term "javascript" is reported as its own term.               *)
C5_NoPartialWordMatch ==
    (Returned("extract_skills") /\ arg.text # None) =>
        /\ \A kw \in SingleWordTerms :
               OnlyInsideWords(kw, lower(arg.text)) => title(kw) \notin Range(ret)
        /\ arg.text = "javascript" => ret = <<"Javascript">>

WhitespaceRuns == {" ", "  ", "\t", "\n"}

AllSpace(s) == \A i \in 1..Len(s) : IsSpace(Char(s, i))

InnerRuns(t) ==
    {r \in (2..(Len(t) - 1)) \X (2..(Len(t) - 1)) :
        /\ r[1] <= r[2]
        /\ AllSpace(SubSeq(t, r[1], r[2]))
        /\ ~IsSpace(Char(t, r[1] - 1))
        /\ ~IsSpace(Char(t, r[2] + 1))}

Reformatted(t) ==
    {SubSeq(t, 1, r[1] - 1) \o w \o SubSeq(t, r[2] + 1, Len(t)) :
        r \in InnerRuns(t), w \in WhitespaceRuns}

(* C6: replacing a run of whitespace between two words of the text by any  *)
(* other non-empty whitespace run does not change the result of            *)
(* extract_skills, multi-word vocabulary terms included.                   *)
C6_WhitespaceFormatIrrelevant ==
    (Returned("extract_skills") /\ arg.text # None) =>
        \A t \in Reformatted(arg.text) : extract_skills(t) = ret

(* C7: the output of extract_skills is in strictly ascending order (so it  *)
(* has no duplicates), every element is the title-case form of a           *)
(* vocabulary term that occurs in the text ignoring case, and empty or     *)
(* missing text gives the empty list.                                      *)
C7_OutputIsSortedTitledVocabulary ==
    Returned("extract_skills") =>
        /\ \A i, j \in DOMAIN ret : i < j => StrLess(ret[i], ret[j])
        /\ \A i \in DOMAIN ret :
               /\ lower(ret[i]) \in Range(_SKILL_KEYWORDS_LITERAL)
               /\ ret[i] = title(lower(ret[i]))
               /\ Contains(lower(ret[i]), lower(arg.text))
        /\ (arg.text = None \/ arg.text = "") => ret = <<>>

C7_Witness ==
    /\ Returned("extract_skills")
    /\ arg.text = "Python java"
    /\ ret = <<"Java", "Python">>

(* C8: with the NLP model loaded, extract_skills returns a superset of     *)
(* what it returns for the same text without the model, and every skill    *)
(* it adds is a vocabulary term.                                           *)
C8_NlpIsAdditive ==
    (Returned("extract_skills") /\ _nlp \in NlpLoaded) =>
        LET keywordOnly == Range(extract_skills_with(None, arg.text))
        IN  /\ keywordOnly \subseteq Range(ret)
            /\ \A s \in Range(ret) \ keywordOnly :
                   lower(s) \in Range(_SKILL_KEYWORDS_LITERAL)

C8_Witness ==
    /\ Returned("extract_skills")
    /\ _nlp = "ws"
    /\ arg.text # None
    /\ extract_skills_with(None, arg.text) = <<"Java">>
    /\ ret = <<"C++", "Java">>

KeywordResult(text) ==
    IF text = None \/ text = "" THEN <<>>
    ELSE sorted({title(kw) : kw \in keyword_scan(lower(text))})

SpacyNotLoaded == _ensure_nlp_available(None).msg

C10_ReadFailureIsReported ==
    (Returned("analyze") /\ ValidRequest(arg) /\ ~arg.resume.readable) =>
        LET failure == "Failed to read PDF file: " \o arg.resume.error
        IN  /\ analyze_resume_file_and_job(arg.resume, strip(arg.job))
                   = Raise("RuntimeError", failure)
            /\ ret = [status |-> 500, json |-> [error |-> failure]]

C10_Witness ==
    /\ Returned("analyze")
    /\ ValidRequest(arg)
    /\ ~arg.resume.readable
    /\ arg.job = ExampleJob
    /\ ret.status = 500

----------------------------------------------------------------------------
(* Properties of the report and detail views. *)

Served(f, template) ==
    /\ Returned(f)
    /\ ret.status = 200
    /\ ret.template = template

CourseRows(c) == {pk \in DOMAIN db.enrollments : db.enrollments[pk].course = c}

(* C11: in the course report (HTML and PDF), for every course and every    *)
(* set of enrollment rows, active + completed + dropped equals the         *)
(* course's student_count, which is the number of enrollment rows of the   *)
(* course, duplicates of a (student, course) pair counted individually.    *)
C11_CourseCountsSumToStudentCount ==
    /\ Served("course_report", "reports/course_report.html") =>
           \A c \in DOMAIN db.courses :
               LET e == ret.context.course_enrollments[c]
               IN  /\ e.active + e.completed + e.dropped
                          = ret.context.courses_with_students[c]
                   /\ e.total = ret.context.courses_with_students[c]
                   /\ ret.context.courses_with_students[c] = Cardinality(CourseRows(c))
    /\ Served("course_report_pdf", "Course_Report.pdf") =>
           \A c \in DOMAIN db.courses :
               /\ ret.context.active_counts[c] + ret.context.completed_counts[c]
                      + ret.context.dropped_counts[c] = ret.context.student_count[c]
               /\ ret.context.student_count[c] = Cardinality(CourseRows(c))

(* The same student is enrolled twice in course 1, once active and once    *)
(* dropped, and the report counts both rows.                               *)
C11_Witness ==
    /\ Served("course_report", "reports/course_report.html")
    /\ db.enrollments = <<[student |-> 1, course |-> 1, status |-> "active"],
                          [student |-> 1, course |-> 1, status |-> "dropped"]>>
    /\ ret.context.courses_with_students[1] = 2
    /\ ret.context.course_enrollments[1] =
           [active |-> 1, completed |-> 0, dropped |-> 1, total |-> 2]

StatusSum(by_status) ==
    next_count(by_status, "present") + next_count(by_status, "absent")
        + next_count(by_status, "late") + next_count(by_status, "excused")

(* The present percentages an attendance report carries. *)
PresentPercentages(context) ==
    {context.course_attendance[c].present_percentage :
        c \in DOMAIN context.course_attendance}

(* C12: in the attendance report, for any set of attendance rows, the      *)
(* global counts of present, absent, late and excused sum to the number of *)
(* student-attendance rows, and the present percentage is 0 when that sum  *)
(* is 0.                                                                   *)
C12_GlobalCountsSumToRows ==
    /\ Served("attendance_report", "reports/attendance_report.html") =>
           LET sum == StatusSum(ret.context.attendance_by_status)
           IN  /\ sum = Cardinality(DOMAIN db.student_attendance)
               /\ sum = 0 => PresentPercentages(ret.context) = {Ratio(0, 1)}
    /\ Served("attendance_report_pdf", "Attendance_Report.pdf") =>
           ret.context.present + ret.context.absent + ret.context.late
               + ret.context.excused = Cardinality(DOMAIN db.student_attendance)

AttendanceOfCourse(c, status) ==
    {pk \in DOMAIN db.student_attendance :
        /\ db.attendance_records[db.student_attendance[pk].attendance_record].course = c
        /\ db.student_attendance[pk].status = status}

(* p is a percentage between 0 and 100. *)
IsPercentage(p) == p.den > 0 /\ 0 <= p.num /\ p.num <= 100 * p.den

(* C13: for every course of the attendance report's per-course breakdown,  *)
(* total = present + absent + late + excused, present_percentage =         *)
(* present / total x 100 when total > 0 and 0 when total = 0, hence        *)
(* present_percentage lies between 0 and 100.                              *)
C13_PerCoursePresentPercentage ==
    Served("attendance_report", "reports/attendance_report.html") =>
        \A c \in DOMAIN ret.context.course_attendance :
            LET e == ret.context.course_attendance[c]
            IN  /\ e.present = Cardinality(AttendanceOfCourse(c, "present"))
                /\ e.absent = Cardinality(AttendanceOfCourse(c, "absent"))
                /\ e.late = Cardinality(AttendanceOfCourse(c, "late"))
                /\ e.excused = Cardinality(AttendanceOfCourse(c, "excused"))
                /\ e.total = e.present + e.absent + e.late + e.excused
                /\ e.present_percentage =
                       IF e.total > 0 THEN Ratio(e.present * 100, e.total) ELSE Ratio(0, 1)
                /\ IsPercentage(e.present_percentage)

(* Course 1 has one present and one absent row: 50 percent. *)
C13_Witness ==
    /\ Served("attendance_report", "reports/attendance_report.html")
    /\ 1 \in DOMAIN ret.context.course_attendance
    /\ ret.context.course_attendance[1] =
           [present |-> 1, absent |-> 1, late |-> 0, excused |-> 0, total |-> 2,
            present_percentage |-> [num |-> 50, den |-> 1]]

ByAdmin(f) == Returned(f) /\ arg.request.authenticated /\ arg.request.user.is_admin

TotalInvoiced == SumOver(db.invoices, DOMAIN db.invoices, "total_amount")

TotalPayments == SumOver(db.payments, DOMAIN db.payments, "amount")

(* C14: the fee report (HTML and PDF) reports, for every set of invoices   *)
(* and payments, pending = sum of invoice total_amount - sum of Payment    *)
(* amounts, whatever the invoices' paid_amount, unclamped: negative when   *)
(* payments exceed the invoiced total.  (Stated for the library build on   *)
(* which an all-zero pie is drawn.)                                        *)
C14_PendingIsInvoicedMinusPayments ==
    /\ ByAdmin("fee_report") =>
           /\ ret.status = 200
           /\ ret.context.total_pending = TotalInvoiced - TotalPayments
    /\ (ByAdmin("fee_report_pdf") /\ matplotlib = "zero_sum_draws") =>
           /\ ret.status = 200
           /\ ret.context.pending_amount = TotalInvoiced - TotalPayments

InvoicesOf(student) == {pk \in DOMAIN db.invoices : db.invoices[pk].student = student}

PaymentsOf(student) ==
    {pk \in DOMAIN db.payments : db.payments[pk].invoice \in InvoicesOf(student)}

RECURSIVE PendingOverStudents(_)
PendingOverStudents(students) ==
    IF students = {} THEN 0
    ELSE LET s == CHOOSE x \in students : TRUE
         IN  student_context(s, db).total_pending + PendingOverStudents(students \ {s})

(* C15: the fee summary of the student detail page derives total paid from *)
(* the Payment rows of the student's invoices, so its pending amount is    *)
(* the student's invoiced total minus those payments, whatever the         *)
(* invoices' paid_amount; summed over all students it equals the global    *)
(* fee report's pending amount.                                            *)
C15_StudentPendingFromPayments ==
    Served("student_detail", "students/student_detail.html") =>
        /\ ret.context.total_paid = SumOver(db.payments, PaymentsOf(arg.pk), "amount")
        /\ ret.context.total_pending =
               SumOver(db.invoices, InvoicesOf(arg.pk), "total_amount")
                   - SumOver(db.payments, PaymentsOf(arg.pk), "amount")
        /\ PendingOverStudents(DOMAIN db.students) = TotalInvoiced - TotalPayments

HtmlReports ==
    {"student_report", "teacher_report", "course_report", "attendance_report", "fee_report"}

PercentageOf(numerator, denominator) ==
    IF denominator = 0 THEN [num |-> 0, den |-> 1]
    ELSE Ratio(numerator * 100, denominator)

AttendanceOfStudent(student) ==
    {pk \in DOMAIN db.student_attendance : db.student_attendance[pk].student = student}

AttendanceOfTeacher(teacher) ==
    {pk \in DOMAIN db.student_attendance :
        teacher \in db.courses[db.attendance_records[
                        db.student_attendance[pk].attendance_record].course].teachers}

Present(rows) == {pk \in rows : db.student_attendance[pk].status = "present"}

(* C17: the student detail page's present_percentage, the teacher detail   *)
(* page's present_percentage and the student PDF's active-enrollment       *)
(* percentage are 0 when their denominator (attendance rows in scope,      *)
(* enrollments) is 0, and otherwise numerator / denominator x 100, between *)
(* 0 and 100.                                                              *)
C17_DetailPercentages ==
    /\ Served("student_detail", "students/student_detail.html") =>
           /\ ret.context.present_percentage =
                  PercentageOf(Cardinality(Present(AttendanceOfStudent(arg.pk))),
                               Cardinality(AttendanceOfStudent(arg.pk)))
           /\ IsPercentage(ret.context.present_percentage)
    /\ Served("teacher_detail", "teachers/teacher_detail.html") =>
           /\ ret.context.present_percentage =
                  PercentageOf(Cardinality(Present(AttendanceOfTeacher(arg.pk))),
                               Cardinality(AttendanceOfTeacher(arg.pk)))
           /\ IsPercentage(ret.context.present_percentage)
    /\ Served("student_report_pdf", "Student_Report.pdf") =>
           /\ ret.context.active_percent =
                  PercentageOf(Cardinality({pk \in DOMAIN db.enrollments :
                                               db.enrollments[pk].status = "active"}),
                               Cardinality(DOMAIN db.enrollments))
           /\ IsPercentage(ret.context.active_percent)

(* Student 2 was present once; student 1 has no attendance row and gets 0. *)
C17_Witness ==
    /\ Served("student_detail", "students/student_detail.html")
    /\ arg.pk = 1
    /\ db.student_attendance =
           <<[attendance_record |-> 1, student |-> 2, status |-> "present"]>>
    /\ ret.context.attendance_stats = [present |-> 0, absent |-> 0, late |-> 0, excused |-> 0]
    /\ ret.context.present_percentage = [num |-> 0, den |-> 1]

(* The user of the request is an admin or owns the teacher profile pk. *)
MaySeeTeacher(user, pk) ==
    user.is_admin \/ (user.is_teacher /\ user.id = db.teachers[pk].user)

(* C20: a teacher profile page is served only to an admin or to the        *)
(* teacher user who owns the profile; every other authenticated user (a    *)
(* student, a different teacher) is denied with PermissionDenied and       *)
(* receives none of the profile's course, attendance or review data.       *)
C20_TeacherProfileAccess ==
    (Returned("teacher_detail") /\ arg.request.authenticated
        /\ arg.pk \in DOMAIN db.teachers) =>
        IF MaySeeTeacher(arg.request.user, arg.pk)
        THEN /\ ret.status = 200
             /\ ret.template = "teachers/teacher_detail.html"
             /\ ret.context.teacher = arg.pk
        ELSE /\ ret.status = 403
             /\ ret.template = "PermissionDenied"
             /\ ret.context = NoContext

(* The teacher with user 3 asks for the profile of the teacher with user 2. *)
C20_Witness ==
    /\ Returned("teacher_detail")
    /\ arg.request = [authenticated |-> TRUE, user |-> User(3, "teacher")]
    /\ arg.pk = 1
    /\ db.teachers[1].user = 2
    /\ db.student_attendance # <<>>
    /\ ret = HttpResponse(403, "PermissionDenied")

C19_ConcurrentReportIsOneSnapshot ==
    Served("course_report", "reports/course_report.html") =>
        \A c \in DOMAIN ret.context.course_enrollments :
            LET e == ret.context.course_enrollments[c]
            IN  /\ c \in DOMAIN ret.context.courses_with_students
                /\ e.active + e.completed + e.dropped
                       = ret.context.courses_with_students[c]

----------------------------------------------------------------------------
(* Completeness of the keyword pass of extract_skills. *)

Delimited(s, i) == i < 1 \/ i > Len(s) \/ ~WordAt(s, i)

StandaloneIn(kw, s) ==
    \E i \in Occurrences(kw, s) : Delimited(s, i - 1) /\ Delimited(s, i + Len(kw))

(* C23: with NLP unavailable, every single-word vocabulary term that       *)
(* occurs in the lower-cased text as a whole token, delimited on both      *)
(* sides by a space, a punctuation character or an end of the text, is     *)
(* reported by extract_skills.                                             *)
C23_StandaloneTermIsReported ==
    (Returned("extract_skills") /\ arg.text # None /\ _nlp = None) =>
        \A kw \in SingleWordTerms :
            StandaloneIn(kw, lower(arg.text)) => title(kw) \in Range(ret)

----------------------------------------------------------------------------
(* The per-course breakdown of the attendance report. *)

CoursesWithAttendance ==
    {db.attendance_records[db.student_attendance[pk].attendance_record].course :
        pk \in DOMAIN db.student_attendance}

(* C28: in the attendance report a course has an entry in the per-course   *)
(* breakdown if and only if at least one student-attendance row exists for *)
(* that course; a course without attendance rows is omitted, so no entry   *)
(* has a zero total.                                                       *)
C28_BreakdownListsCoursesWithRows ==
    Served("attendance_report", "reports/attendance_report.html") =>
        /\ DOMAIN ret.context.course_attendance = CoursesWithAttendance
        /\ \A c \in DOMAIN ret.context.course_attendance :
               ret.context.course_attendance[c].total > 0

(* Rows exist for course 2 only: courses 1 and 3 are omitted. *)
C28_Witness ==
    /\ Served("attendance_report", "reports/attendance_report.html")
    /\ DOMAIN db.courses = {1, 2, 3}
    /\ db.student_attendance # <<>>
    /\ DOMAIN ret.context.course_attendance = {2}

----------------------------------------------------------------------------
(* Management views (src/teachers/views.py, src/students/views.py,         *)
(* src/courses/views.py).  A behaviour is a sequence of requests, each     *)
(* served completely before the next; django records which hook the        *)
(* installed DeleteView.post calls: delete() before Django 4.0,            *)
(* form_valid() since.                                                     *)

(* AccessMixin.handle_no_permission: PermissionDenied for a logged-in      *)
(* user, a redirect to the login page otherwise.                           *)
handle_no_permission(request) ==
    IF request.authenticated THEN HttpResponse(403, "PermissionDenied")
    ELSE HttpResponse(302, "login")

(* One admin (user 1), two teachers (users 2, 3) with one publication      *)
(* each, three students (users 4, 5, 6); student 3 has no enrollment.      *)
ManageDb ==
    [BaseDb EXCEPT
        !.users = <<[username |-> "admin", user_type |-> "admin"],
                    [username |-> "t2", user_type |-> "teacher"],
                    [username |-> "t3", user_type |-> "teacher"],
                    [username |-> "s4", user_type |-> "student"],
                    [username |-> "s5", user_type |-> "student"],
                    [username |-> "s6", user_type |-> "student"]>>,
        !.teachers = <<[user |-> 2, teacher_id |-> "T1", gender |-> "F", experience |-> 2],
                       [user |-> 3, teacher_id |-> "T2", gender |-> "M", experience |-> 5]>>,
        !.students = <<[user |-> 4, student_id |-> "S1"], [user |-> 5, student_id |-> "S2"],
                       [user |-> 6, student_id |-> "S3"]>>,
        !.courses = <<[teachers |-> {1}, name |-> "Python", code |-> "CS1",
                       department |-> [id |-> 1, name |-> "Science"]],
                      [teachers |-> {2}, name |-> "Java", code |-> "CS2",
                       department |-> [id |-> 2, name |-> "Arts"]],
                      [teachers |-> {1, 2}, name |-> "Algebra", code |-> "PY3",
                       department |-> [id |-> 1, name |-> "Science"]]>>,
        !.enrollments = <<[student |-> 1, course |-> 1, status |-> "active"],
                          [student |-> 1, course |-> 2, status |-> "completed"],
                          [student |-> 2, course |-> 1, status |-> "active"]>>,
        !.publications = <<[teacher |-> 1, title |-> "P1"], [teacher |-> 2, title |-> "P2"]>>]

InitManage ==
    /\ _nlp = None
    /\ matplotlib = "zero_sum_draws"
    /\ django \in {"post_calls_delete", "post_calls_form_valid"}
    /\ pc = "return"
    /\ op = "index"
    /\ arg = [authenticated |-> TRUE, method |-> "GET"]
    /\ ret = index_view(arg)
    /\ db = ManageDb
    /\ served = 0

(* POST teachers/<teacher_id>/publications/add/.  The form carries a title *)
(* (required) and whatever else was submitted, here a teacher.             *)
PublicationCreateView ==
    /\ served < MaxRequests
    /\ \E request \in DetailRequests, teacher_id \in 1..3,
          form \in [title : {"", "P3"}, teacher : {2}] :
           /\ op' = "publication_add"
           /\ arg' = [request |-> request, teacher_id |-> teacher_id, form |-> form]
           /\ IF teacher_id \notin DOMAIN db.teachers
              THEN ret' = HttpResponse(500, "DoesNotExist") /\ db' = db
              ELSE IF ~request.authenticated
              THEN ret' = HttpResponse(500, "AttributeError") /\ db' = db
              ELSE IF ~(request.user.is_admin
                          \/ (request.user.is_teacher
                                /\ request.user.id = db.teachers[teacher_id].user))
              THEN ret' = HttpResponse(403, "PermissionDenied") /\ db' = db
              ELSE IF form.title # ""
              THEN /\ db' = [db EXCEPT !.publications =
                                insert(@, [teacher |-> teacher_id, title |-> form.title])]
                   /\ ret' = HttpResponse(302, "teacher_detail")
              ELSE /\ ret' = render("teachers/publication_form.html", [form |-> form])
                   /\ db' = db
    /\ served' = served + 1
    /\ UNCHANGED <<_nlp, pc, matplotlib, django>>

(* POST teachers/publications/<pk>/edit/: LoginRequiredMixin is the only   *)
(* access test of the view.                                                *)
PublicationUpdateView ==
    /\ served < MaxRequests
    /\ \E request \in DetailRequests, pk \in 1..2,
          form \in [title : {"", "P3"}, teacher : {2}] :
           /\ op' = "publication_edit"
           /\ arg' = [request |-> request, pk |-> pk, form |-> form]
           /\ IF ~request.authenticated
              THEN ret' = handle_no_permission(request) /\ db' = db
              ELSE IF pk \notin DOMAIN db.publications
              THEN ret' = HttpResponse(404, "Http404") /\ db' = db
              ELSE IF form.title # ""
              THEN /\ db' = [db EXCEPT !.publications[pk].title = form.title]
                   /\ ret' = HttpResponse(302, "teacher_detail")
              ELSE /\ ret' = render("teachers/publication_form.html", [form |-> form])
                   /\ db' = db
    /\ served' = served + 1
    /\ UNCHANGED <<_nlp, pc, matplotlib, django>>

(* GET or POST teachers/publications/<pk>/delete/: LoginRequiredMixin is   *)
(* the only access test of the view; delete() is not overridden, so every  *)
(* Django removes the row on POST.                                         *)
PublicationDeleteView ==
    /\ served < MaxRequests
    /\ \E request \in DetailRequests, pk \in 1..2, method \in Methods :
           /\ op' = "publication_delete"
           /\ arg' = [request |-> request, pk |-> pk, method |-> method]
           /\ IF ~request.authenticated
              THEN ret' = handle_no_permission(request) /\ db' = db
              ELSE IF pk \notin DOMAIN db.publications
              THEN ret' = HttpResponse(404, "Http404") /\ db' = db
              ELSE IF method = "POST"
              THEN /\ db' = apply_write([kind |-> "delete", table |-> "publications",
                                         pk |-> pk], db)
                   /\ ret' = HttpResponse(302, "teacher_detail")
              ELSE /\ ret' = render("teachers/publication_confirm_delete.html",
                                    [object |-> pk])
                   /\ db' = db
    /\ served' = served + 1
    /\ UNCHANGED <<_nlp, pc, matplotlib, django>>

(* Mutant: a student user is shown every enrollment. *)
get_queryset_all(request, d) ==
    IF request.user.is_student THEN DOMAIN d.enrollments ELSE {}

(* StudentEnrollmentListView.get_queryset: the primary keys of the         *)
(* enrollments of the first Student row of the requesting student user.    *)
get_queryset(request, d) ==
    LET students == filter(d.students, [user |-> request.user.id])
    IN  IF request.user.is_student /\ students # {}
        THEN filter(d.enrollments, [student |-> CHOOSE s \in students :
                                                    \A t \in students : s <= t])
        ELSE {}

StudentEnrollmentListView ==
    /\ served < MaxRequests
    /\ \E request \in DetailRequests
                          \cup {[authenticated |-> TRUE, user |-> User(6, "student")]} :
           /\ op' = "student_enrollment_list"
           /\ arg' = [request |-> request]
           /\ ret' = IF ~request.authenticated THEN handle_no_permission(request)
                     ELSE render("courses/student_enrollment_list.html",
                                 [enrollments |-> get_queryset(request, db)])
    /\ served' = served + 1
    /\ UNCHANGED <<_nlp, pc, db, matplotlib, django>>

(* Mutant: post is not atomic, a failed profile insert leaves the user. *)
StudentCreateView_not_atomic ==
    /\ served < MaxRequests
    /\ \E request \in ReportRequests, saved \in BOOLEAN,
          user_form \in [username : {"s4", "new"}, user_type : {"admin", "student"}],
          student_form \in [student_id : {"S1", "S9"}] :
           LET user == [username |-> user_form.username, user_type |-> "student"]
               users == insert(db.users, user)
               student == [user |-> Max(DOMAIN users), student_id |-> student_form.student_id]
               context == [user_form |-> user_form, student_form |-> student_form]
           IN  /\ op' = "student_add"
               /\ arg' = [request |-> request, saved |-> saved,
                          user_form |-> user_form, student_form |-> student_form]
               /\ IF ~test_func(request)
                  THEN ret' = handle_no_permission(request) /\ db' = db
                  ELSE IF /\ filter(db.users, [username |-> user_form.username]) = {}
                          /\ filter(db.students, [student_id |-> student_form.student_id]) = {}
                  THEN IF saved
                       THEN /\ db' = [db EXCEPT !.users = users,
                                                !.students = insert(@, student)]
                            /\ ret' = HttpResponse(302, "student_list")
                       ELSE /\ db' = [db EXCEPT !.users = insert(@, user)]
                            /\ ret' = HttpResponse(500, "DatabaseError")
                  ELSE ret' = render("students/student_form.html", context) /\ db' = db
    /\ served' = served + 1
    /\ UNCHANGED <<_nlp, pc, matplotlib, django>>

(* POST students/add/.  user_form is valid when the username is free,      *)
(* student_form when the student_id is free; a submitted user_type is no   *)
(* field of the form.  saved tells whether the INSERT of the profile       *)
(* succeeds; post is atomic, so the user is rolled back when it does not.  *)
StudentCreateView ==
    /\ served < MaxRequests
    /\ \E request \in ReportRequests, saved \in BOOLEAN,
          user_form \in [username : {"s4", "new"}, user_type : {"admin", "student"}],
          student_form \in [student_id : {"S1", "S9"}] :
           LET user == [username |-> user_form.username, user_type |-> "student"]
               users == insert(db.users, user)
               student == [user |-> Max(DOMAIN users), student_id |-> student_form.student_id]
               context == [user_form |-> user_form, student_form |-> student_form]
           IN  /\ op' = "student_add"
               /\ arg' = [request |-> request, saved |-> saved,
                          user_form |-> user_form, student_form |-> student_form]
               /\ IF ~test_func(request)
                  THEN ret' = handle_no_permission(request) /\ db' = db
                  ELSE IF /\ filter(db.users, [username |-> user_form.username]) = {}
                          /\ filter(db.students, [student_id |-> student_form.student_id]) = {}
                  THEN IF saved
                       THEN /\ db' = [db EXCEPT !.users = users,
                                                !.students = insert(@, student)]
                            /\ ret' = HttpResponse(302, "student_list")
                       ELSE /\ db' = db
                            /\ ret' = HttpResponse(500, "DatabaseError")
                  ELSE ret' = render("students/student_form.html", context) /\ db' = db
    /\ served' = served + 1
    /\ UNCHANGED <<_nlp, pc, matplotlib, django>>

(* POST teachers/add/.  user_form is valid when the username is free,      *)
(* teacher_form when the teacher_id is free; a submitted user_type is no   *)
(* field of the form.  saved tells whether the INSERT of the profile       *)
(* succeeds; post is atomic, so the user is rolled back when it does not.  *)
TeacherCreateView ==
    /\ served < MaxRequests
    /\ \E request \in ReportRequests, saved \in BOOLEAN,
          user_form \in [username : {"t2", "new"}, user_type : {"admin", "teacher"}],
          teacher_form \in [teacher_id : {"T1", "T9"}] :
           LET user == [username |-> user_form.username, user_type |-> "teacher"]
               users == insert(db.users, user)
               teacher == [user |-> Max(DOMAIN users), teacher_id |-> teacher_form.teacher_id,
                            gender |-> "F", experience |-> 0]
               context == [user_form |-> user_form, teacher_form |-> teacher_form]
           IN  /\ op' = "teacher_add"
               /\ arg' = [request |-> request, saved |-> saved,
                          user_form |-> user_form, teacher_form |-> teacher_form]
               /\ IF ~test_func(request)
                  THEN ret' = handle_no_permission(request) /\ db' = db
                  ELSE IF /\ filter(db.users, [username |-> user_form.username]) = {}
                          /\ filter(db.teachers, [teacher_id |-> teacher_form.teacher_id]) = {}
                  THEN IF saved
                       THEN /\ db' = [db EXCEPT !.users = users,
                                                !.teachers = insert(@, teacher)]
                            /\ ret' = HttpResponse(302, "teacher_list")
                       ELSE /\ db' = db
                            /\ ret' = HttpResponse(500, "DatabaseError")
                  ELSE ret' = render("teachers/teacher_create.html", context) /\ db' = db
    /\ served' = served + 1
    /\ UNCHANGED <<_nlp, pc, matplotlib, django>>

(* GET or POST students/<pk>/delete/.  The view overrides delete(), which   *)
(* removes the student and then its user; DeleteView.post calls it only    *)
(* before Django 4.0 and otherwise calls form_valid, which removes the     *)
(* object alone.  pk ranges over the students without dependent rows.      *)
StudentDeleteView ==
    /\ served < MaxRequests
    /\ \E request \in ReportRequests, pk \in 3..4, method \in Methods :
           /\ op' = "student_delete"
           /\ arg' = [request |-> request, pk |-> pk, method |-> method]
           /\ IF ~test_func(request)
              THEN ret' = handle_no_permission(request) /\ db' = db
              ELSE IF pk \notin DOMAIN db.students
              THEN ret' = HttpResponse(404, "Http404") /\ db' = db
              ELSE IF method = "GET"
              THEN /\ ret' = render("students/student_confirm_delete.html", [object |-> pk])
                   /\ db' = db
              ELSE LET student == [kind |-> "delete", table |-> "students", pk |-> pk]
                       user == [kind |-> "delete", table |-> "users",
                                pk |-> db.students[pk].user]
                   IN  /\ db' = IF django = "post_calls_delete"
                                THEN apply_writes(<<student, user>>, db)
                                ELSE apply_write(student, db)
                       /\ ret' = HttpResponse(302, "student_list")
    /\ served' = served + 1
    /\ UNCHANGED <<_nlp, pc, matplotlib, django>>

(* GET or POST teachers/<pk>/delete/, as for students.  Deleting a teacher *)
(* cascades to its reviews and publications and to its course links.       *)
TeacherDeleteView ==
    /\ served < MaxRequests
    /\ \E request \in ReportRequests, pk \in 1..2, method \in Methods :
           /\ op' = "teacher_delete"
           /\ arg' = [request |-> request, pk |-> pk, method |-> method]
           /\ IF ~test_func(request)
              THEN ret' = handle_no_permission(request) /\ db' = db
              ELSE IF pk \notin DOMAIN db.teachers
              THEN ret' = HttpResponse(404, "Http404") /\ db' = db
              ELSE IF method = "GET"
              THEN /\ ret' = render("teachers/teacher_confirm_delete.html", [object |-> pk])
                   /\ db' = db
              ELSE LET kept(t) == [i \in {j \in DOMAIN db[t] : db[t][j].teacher # pk}
                                      |-> db[t][i]]
                       teacher ==
                           [apply_write([kind |-> "delete", table |-> "teachers",
                                         pk |-> pk], db)
                               EXCEPT !.reviews = kept("reviews"),
                                      !.publications = kept("publications"),
                                      !.courses = [c \in DOMAIN db.courses |->
                                          [db.courses[c] EXCEPT !.teachers = @ \ {pk}]]]
                   IN  /\ db' = IF django = "post_calls_delete"
                                THEN apply_write([kind |-> "delete", table |-> "users",
                                                  pk |-> db.teachers[pk].user], teacher)
                                ELSE teacher
                       /\ ret' = HttpResponse(302, "teacher_list")
    /\ served' = served + 1
    /\ UNCHANGED <<_nlp, pc, matplotlib, django>>

(* GET courses/?department=..&search=..: CourseListView.get_queryset.  Q is *)
(* not imported by courses/views.py, so building the search filter raises  *)
(* NameError.                                                              *)
CourseListView ==
    /\ served < MaxRequests
    /\ \E request \in ReportRequests, department \in {"all", "1", "2"},
          search \in {"", "py"} :
           LET department_id == IF department = "1" THEN 1 ELSE 2
               qs == {c \in DOMAIN db.courses :
                         department = "all" \/ db.courses[c].department.id = department_id}
               key(c) == <<db.courses[c].department.name, db.courses[c].name>>
               before(a, b) ==
                   \/ StrLess(key(a)[1], key(b)[1])
                   \/ key(a)[1] = key(b)[1] /\ StrLess(key(a)[2], key(b)[2])
                   \/ key(a) = key(b) /\ a < b
               ordered == [i \in 1..Cardinality(qs) |->
                              CHOOSE c \in qs :
                                  Cardinality({x \in qs : before(x, c)}) = i - 1]
           IN  /\ op' = "course_list"
               /\ arg' = [request |-> request, department |-> department,
                          search |-> search]
               /\ ret' = IF ~request.authenticated THEN handle_no_permission(request)
                         ELSE IF search # "" THEN HttpResponse(500, "NameError")
                         ELSE render("courses/course_list.html", [courses |-> ordered])
    /\ served' = served + 1
    /\ UNCHANGED <<_nlp, pc, db, matplotlib, django>>

NextManage ==
    \/ PublicationCreateView
    \/ PublicationUpdateView
    \/ PublicationDeleteView
    \/ StudentEnrollmentListView
    \/ StudentCreateView
    \/ TeacherCreateView
    \/ StudentDeleteView
    \/ TeacherDeleteView
    \/ CourseListView

SpecManage == InitManage /\ [][NextManage]_vars

----------------------------------------------------------------------------
(* Seeding.  A behaviour is one run of the fee step of a seeding command   *)
(* on a database that holds the seeded students and no invoice; arg.paid   *)
(* are the students for whose invoice random.choice returns True.          *)

(* Command.create_fee_invoices_and_payments of both seeding files: one     *)
(* pending invoice of 57000 with paid_amount 0 for every student, its      *)
(* three items, and a cash payment of 30000 for the invoices random.choice *)
(* picks (paid).  synced tells whether saving a Payment adds its amount to *)
(* the invoice's paid_amount.                                              *)
create_fee_invoices_and_payments(d, paid, synced) ==
    LET students == DOMAIN d.students
        invoice(st) == [student |-> st, total_amount |-> 57000,
                        paid_amount |-> IF synced /\ st \in paid THEN 30000 ELSE 0,
                        status |-> "pending"]
        RECURSIVE create(_, _)
        create(todo, e) ==
            IF todo = {} THEN e
            ELSE LET st == CHOOSE x \in todo : \A y \in todo : x <= y
                     e1 == [e EXCEPT !.invoices = insert(@, invoice(st))]
                     pk == Max(DOMAIN e1.invoices)
                     e2 == [e1 EXCEPT !.invoice_items =
                               insert(insert(insert(@,
                                   [invoice |-> pk, category |-> 1, amount |-> 50000]),
                                   [invoice |-> pk, category |-> 2, amount |-> 2000]),
                                   [invoice |-> pk, category |-> 3, amount |-> 5000])]
                 IN  create(todo \ {st},
                            IF st \in paid
                            THEN [e2 EXCEPT !.payments =
                                     insert(@, [invoice |-> pk, amount |-> 30000,
                                                method |-> "cash"])]
                            ELSE e2)
    IN  create(students, d)

(* The fee step of the management command dummy_data: the payments are     *)
(* stored with bulk_create, which calls neither Payment.save nor any       *)
(* signal handler.                                                         *)
DummyDataCommand ==
    /\ pc = "call" /\ op = "dummy_data_command"
    /\ db' = create_fee_invoices_and_payments(db, arg.paid, FALSE)
    /\ ret' = "Dummy data created successfully!"
    /\ pc' = "return"
    /\ UNCHANGED <<_nlp, op, arg, matplotlib, served, django>>

(* The fee step of src/dummy_data.py: the payments are stored with         *)
(* Payment.objects.create, which calls Payment.save; the fees models are   *)
(* not part of src/, so both outcomes of save are kept (arg.synced).       *)
DummyDataScript ==
    /\ pc = "call" /\ op = "dummy_data_script"
    /\ db' = create_fee_invoices_and_payments(db, arg.paid, arg.synced)
    /\ ret' = "Dummy data created successfully!"
    /\ pc' = "return"
    /\ UNCHANGED <<_nlp, op, arg, matplotlib, served, django>>

InitSeed ==
    /\ _nlp = None
    /\ matplotlib = "zero_sum_draws"
    /\ django = "post_calls_form_valid"
    /\ pc = "call"
    /\ ret = <<>>
    /\ served = 0
    /\ \E n \in 0..MaxSeedStudents :
           /\ db = [EmptyDb EXCEPT !.students = [i \in 1..n |-> [user |-> i]]]
           /\ \/ op = "dummy_data_command" /\ arg \in [paid : SUBSET (1..n)]
              \/ op = "dummy_data_script"
                     /\ arg \in [paid : SUBSET (1..n), synced : BOOLEAN]

NextSeed ==
    \/ DummyDataCommand
    \/ DummyDataScript

SpecSeed == InitSeed /\ [][NextSeed]_vars

----------------------------------------------------------------------------
(* Properties of the management views. *)

(* The step serves a request to view f. *)
Serves(f) == served' = served + 1 /\ op' = f

(* C21: a publication is added for teacher T only by an admin or by T's    *)
(* own user; any other user is denied with PermissionDenied and nothing is *)
(* created; every publication created through the add view belongs to the  *)
(* teacher named in the URL, whatever the submitted form contains.         *)
C21_PublicationAddOnlyByAdminOrOwner ==
    [][(Serves("publication_add") /\ arg'.teacher_id \in DOMAIN db.teachers) =>
          LET user == arg'.request.user
              T == arg'.teacher_id
              created == DOMAIN db'.publications \ DOMAIN db.publications
          IN  /\ \A pk \in DOMAIN db.publications :
                     pk \in DOMAIN db'.publications
                         /\ db'.publications[pk] = db.publications[pk]
              /\ \A pk \in created : db'.publications[pk].teacher = T
              /\ ~(user.is_admin \/ (user.is_teacher /\ user.id = db.teachers[T].user)) =>
                     /\ ret' = HttpResponse(403, "PermissionDenied")
                     /\ db' = db]_vars

(* The user is an admin or the user of teacher T. *)
AdminOrOwner(user, T) ==
    user.is_admin \/ (user.is_teacher /\ user.id = db.teachers[T].user)

(* C24: a research publication is edited or deleted only by an admin or by *)
(* the teacher who owns it: no request of a logged-in student or of a      *)
(* different teacher to the edit or delete view changes or removes another *)
(* teacher's publication.                                                  *)
C24_PublicationChangedOnlyByAdminOrOwner ==
    [][(Serves("publication_edit") \/ Serves("publication_delete")) =>
          \A pk \in DOMAIN db.publications :
              (arg'.request.authenticated
                  /\ ~AdminOrOwner(arg'.request.user, db.publications[pk].teacher)) =>
                  /\ pk \in DOMAIN db'.publications
                  /\ db'.publications[pk] = db.publications[pk]]_vars

(* The Student rows of the user. *)
StudentsOf(user) == {s \in DOMAIN db.students : db.students[s].user = user.id}

(* C22: the student enrollment list shows a student user exactly the       *)
(* enrollments of their own student record and never another student's; a  *)
(* user who is not a student, or a student user without a student record,  *)
(* gets an empty list.                                                     *)
C22_OwnEnrollmentsOnly ==
    Served("student_enrollment_list", "courses/student_enrollment_list.html") =>
        LET user == arg.request.user
            shown == ret.context.enrollments
        IN  /\ (user.is_student /\ StudentsOf(user) # {}) =>
                   shown = {pk \in DOMAIN db.enrollments :
                               db.enrollments[pk].student \in StudentsOf(user)}
            /\ (~user.is_student \/ StudentsOf(user) = {}) => shown = {}

(* Student user 4 sees the two enrollments of student 1 and not the        *)
(* enrollment of student 2.                                                *)
C22_Witness ==
    /\ Served("student_enrollment_list", "courses/student_enrollment_list.html")
    /\ arg.request.user = User(4, "student")
    /\ db.enrollments[3].student = 2
    /\ ret.context.enrollments = {1, 2}

(* Table t of d2 is table t of d1 plus new rows. *)
Extends(d1, d2, t) ==
    /\ DOMAIN d1[t] \subseteq DOMAIN d2[t]
    /\ \A pk \in DOMAIN d1[t] : d2[t][pk] = d1[t][pk]

(* C26: creating a student or a teacher is all-or-nothing: after a create  *)
(* request either both forms were valid and exactly one new User and one   *)
(* profile linked to it exist, the user's user_type being student          *)
(* (resp. teacher) whatever was submitted, or no User and no profile were  *)
(* created; no new User is left without a profile.                         *)
C26_CreateIsAllOrNothing ==
    [][\A kind \in {"student", "teacher"} :
          Serves(kind \o "_add") =>
              LET profiles == kind \o "s"
                  id == kind \o "_id"
                  created_users == DOMAIN db'.users \ DOMAIN db.users
                  created_profiles == DOMAIN db'[profiles] \ DOMAIN db[profiles]
                  both_valid ==
                      /\ \A u \in DOMAIN db.users :
                             db.users[u].username # arg'.user_form.username
                      /\ \A q \in DOMAIN db[profiles] :
                             db[profiles][q][id] # arg'[kind \o "_form"][id]
              IN  \/ db' = db
                  \/ /\ both_valid
                     /\ Cardinality(created_users) = 1
                     /\ Cardinality(created_profiles) = 1
                     /\ \A u \in created_users, q \in created_profiles :
                            /\ db'.users[u].user_type = kind
                            /\ db'[profiles][q].user = u
                     /\ Extends(db, db', "users") /\ Extends(db, db', profiles)
                     /\ \A t \in DOMAIN db \ {"users", profiles} : db'[t] = db[t]]_vars

(* The admin submitted user_type admin with a free username and student    *)
(* id: user 7 is a student and student 4 is its profile.                   *)
C26_Witness ==
    /\ Returned("student_add")
    /\ arg.user_form = [username |-> "new", user_type |-> "admin"]
    /\ ret = HttpResponse(302, "student_list")
    /\ db.users[7] = [username |-> "new", user_type |-> "student"]
    /\ db.students[4] = [user |-> 7, student_id |-> "S9"]

(* C27: deleting a student or a teacher through its delete view, the       *)
(* confirmation form being submitted by an admin, removes both the profile *)
(* and its User account: afterwards neither the Student or Teacher row nor *)
(* the associated User exists, so no state with the profile gone and the   *)
(* user remaining is reached.                                              *)
C27_DeleteRemovesProfileAndUser ==
    [][\A kind \in {"student", "teacher"} :
          LET profiles == kind \o "s" IN
          (/\ Serves(kind \o "_delete")
           /\ arg'.method = "POST"
           /\ test_func(arg'.request)
           /\ arg'.pk \in DOMAIN db[profiles]) =>
              /\ arg'.pk \notin DOMAIN db'[profiles]
              /\ db[profiles][arg'.pk].user \notin DOMAIN db'.users]_vars

(* The course matches the department filter and the search term. *)
Matches(c, department, search) ==
    /\ \/ department = "all"
       \/ department = "1" /\ db.courses[c].department.id = 1
       \/ department = "2" /\ db.courses[c].department.id = 2
    /\ \/ Contains(lower(search), lower(db.courses[c].name))
       \/ Contains(lower(search), lower(db.courses[c].code))

(* Courses a and b are in the order department name, then course name. *)
InOrder(a, b) ==
    \/ StrLess(db.courses[a].department.name, db.courses[b].department.name)
    \/ /\ db.courses[a].department.name = db.courses[b].department.name
       /\ ~StrLess(db.courses[b].name, db.courses[a].name)

(* C29: with a non-empty search term the course list returns exactly the   *)
(* courses of the selected department (all departments when all) whose     *)
(* name or code contains the term ignoring case, ordered by department     *)
(* name then course name, and the request completes without error.         *)
C29_SearchListsMatchingCourses ==
    (Returned("course_list") /\ arg.request.authenticated /\ arg.search # "") =>
        /\ ret.status = 200
        /\ Range(ret.context.courses) =
               {c \in DOMAIN db.courses : Matches(c, arg.department, arg.search)}
        /\ \A i, j \in DOMAIN ret.context.courses :
               i < j => InOrder(ret.context.courses[i], ret.context.courses[j])

(* C30: after the dummy-data seeding has completed, every invoice's cached *)
(* paid_amount equals the sum of its Payment rows, so the total of         *)
(* paid_amount (the fee summary) equals the total of the Payment rows (the *)
(* fee report) on the seeded data.                                         *)
C30_SeededPaidAmountMatchesPayments ==
    (Returned("dummy_data_command") \/ Returned("dummy_data_script")) =>
        /\ \A i \in DOMAIN db.invoices :
               db.invoices[i].paid_amount =
                   SumOver(db.payments, filter(db.payments, [invoice |-> i]), "amount")
        /\ SumOver(db.invoices, DOMAIN db.invoices, "paid_amount") = TotalPayments

----------------------------------------------------------------------------
(* Disclosure of the report aggregates. *)

AggregateReports ==
    HtmlReports \cup
        {"student_report_pdf", "teacher_report_pdf", "course_report_pdf",
         "attendance_report_pdf", "fee_report_pdf", "teacher_xls"}

(* The response denies the request: the access-denied page, 403 or 200     *)
(* with Not authorized, or the redirect of an anonymous requester to the   *)
(* login page.                                                             *)
IsDenial(response) ==
    \/ response.status = 302
    \/ response \in {render("reports/access_denied.html", NoContext),
                     HttpResponse(403, "Not authorized"),
                     HttpResponse(200, "Not authorized")}

(* C25: report aggregates are disclosed only to admins: for every report   *)
(* view (student, teacher, course, attendance, fee; HTML, PDF and the      *)
(* teacher XLS export) a requester who is not an admin gets a denial and   *)
(* no aggregate.                                                           *)
C25_AggregatesOnlyForAdmins ==
    \A f \in AggregateReports :
        (Returned(f) /\ ~(arg.request.authenticated /\ arg.request.user.is_admin)) =>
            IsDenial(ret)

====
